---- MODULE Spec2Model ----
(***************************************************************************)
(* Verification engine of rootstock-attest: verifyAttestation reconciles   *)
(* the indexer's view of an attestation (QueryService.getAttestationsByUID)*)
(* with the registry's (BlockchainAdapter.getAttestation / getSchema) into *)
(* one VerificationResult.  One action per segment of the async function   *)
(* between two awaits.                                                     *)
(*                                                                         *)
(* Timestamps of the model are whole seconds that Date can render          *)
(* (|ms| <= 8.64e15), so Date.prototype.toISOString never raises its       *)
(* RangeError here.                                                        *)
(***************************************************************************)
EXTENDS Integers, Sequences, FiniteSets, TLC

VARIABLES pc, uid, checks, result, lookup, onChain, schemaRes, calls, clockMs, checkedAtMs,
          first, svc, logger, codec, cmd

vars == <<pc, uid, checks, result, lookup, onChain, schemaRes, calls, clockMs, checkedAtMs,
          first, svc, logger, codec, cmd>>

\* the state of the command-line collaborators
cliVars == <<logger, codec, cmd>>

(***************************************************************************)
(* Bounds of the model.                                                    *)
(***************************************************************************)
\* first second of the modelled window (1970-01-20T16:13:20Z)
BaseTime == 1700000
\* timestamps of records range over 0 and BaseTime .. BaseTime + TimeSpan
TimeSpan == 2
\* the clock runs from BaseTime to BaseTime + ClockSpan seconds
ClockSpan == 2
\* granularity of the clock, in milliseconds
TickMs == 500

MsPerSecond == 1000

UIDs == {"0xa1", "0xb2"}
\* what the registry returns as uid for an attestation it does not hold
ZeroUid == "0x00"
SchemaIds == {"0x5c"}
Times == {0} \cup (BaseTime .. BaseTime + TimeSpan)
NoTime == -1

(***************************************************************************)
(* Date.prototype.toISOString for an instant ms >= 0 (proleptic Gregorian  *)
(* calendar, UTC), as `new Date(ms).toISOString()` renders it.             *)
(***************************************************************************)
Pad2(n) == IF n < 10 THEN "0" \o ToString(n) ELSE ToString(n)

Pad3(n) == IF n < 10 THEN "00" \o ToString(n) ELSE IF n < 100 THEN "0" \o ToString(n) ELSE ToString(n)

Pad4(n) == IF n < 1000 THEN "0" \o Pad3(n) ELSE ToString(n)

toISOString(ms) ==
    LET days == ms \div 86400000
        rem  == ms % 86400000
        hh   == rem \div 3600000
        mi   == (rem % 3600000) \div 60000
        ss   == (rem % 60000) \div 1000
        mmm  == rem % 1000
        z    == days + 719468
        era  == z \div 146097
        doe  == z - era * 146097
        yoe  == (doe - doe \div 1460 + doe \div 36524 - doe \div 146096) \div 365
        doy  == doe - (365 * yoe + yoe \div 4 - yoe \div 100)
        mp   == (5 * doy + 2) \div 153
        dd   == doy - (153 * mp + 2) \div 5 + 1
        mo   == IF mp < 10 THEN mp + 3 ELSE mp - 9
        yy   == yoe + era * 400 + (IF mo <= 2 THEN 1 ELSE 0)
    IN  Pad4(yy) \o "-" \o Pad2(mo) \o "-" \o Pad2(dd) \o "T" \o Pad2(hh) \o ":"
            \o Pad2(mi) \o ":" \o Pad2(ss) \o "." \o Pad3(mmm) \o "Z"

(***************************************************************************)
(* The indexer: records, HTTP responses, QueryService.getAttestationsByUID *)
(***************************************************************************)
AttestationRecords ==
    [uid : UIDs, schema : [id : SchemaIds], revocationTime : Times, expirationTime : Times]

\* a record of another schema that may follow the first one in a response
TrailingRecord ==
    [uid |-> "0xb2", schema |-> [id |-> "0x5c"], revocationTime |-> 0, expirationTime |-> 0]

\* a null entry of the list (the response is `any`); reading a field of it is a TypeError
NullRecord ==
    [uid |-> "", schema |-> [id |-> ""], revocationTime |-> 0, expirationTime |-> 0]

AttestationLists ==
    {<<>>} \cup {<<r>> : r \in AttestationRecords}
           \cup {<<r, TrailingRecord>> : r \in AttestationRecords}
           \cup {<<NullRecord>>}

Response(rejected, message, ok, statusText, jsonValid, hasErrors, errorsJson, data, list) ==
    [rejected |-> rejected, message |-> message, ok |-> ok, statusText |-> statusText,
     jsonValid |-> jsonValid, hasErrors |-> hasErrors, errorsJson |-> errorsJson,
     data |-> data, attestations |-> list]

\* fetch() rejects: no HTTP response at all
FetchRejected == Response(TRUE, "fetch failed", FALSE, "", FALSE, FALSE, "", "absent", <<>>)

\* non-2xx status; the body is whatever
HttpFailures ==
    {Response(FALSE, "", FALSE, st, TRUE, he, IF he THEN "[{\"message\":\"Upstream\"}]" ELSE "", d, <<>>) :
        st \in {"Internal Server Error", "Bad Gateway"}, he \in BOOLEAN, d \in {"absent", "list"}}
    \cup {Response(FALSE, "", FALSE, st, FALSE, FALSE, "", "absent", <<>>) :
            st \in {"Internal Server Error", "Bad Gateway"}}

\* 2xx whose body is not JSON: response.json() rejects
BadJson ==
    Response(FALSE, "Unexpected token < in JSON at position 0", TRUE, "OK", FALSE, FALSE, "",
             "absent", <<>>)

\* 2xx with an `errors` array, with or without data
GraphQLErrors ==
    {Response(FALSE, "", TRUE, "OK", TRUE, TRUE, "[{\"message\":\"Cannot query field\"}]", d, <<>>) :
        d \in {"absent", "list"}}

\* 2xx, no errors: data absent, data without the attestations field, or a list
Successes ==
    {Response(FALSE, "", TRUE, "OK", TRUE, FALSE, "", d, <<>>) : d \in {"absent", "nofield"}}
    \cup {Response(FALSE, "", TRUE, "OK", TRUE, FALSE, "", "list", l) : l \in AttestationLists}

IndexerResponses == {FetchRejected, BadJson} \cup HttpFailures \cup GraphQLErrors \cup Successes

Pending == "pending"

Returned(v) == [status |-> "ok", message |-> "", value |-> v]

Threw(m, v0) == [status |-> "threw", message |-> m, value |-> v0]

NotSettled(v0) == [status |-> Pending, message |-> "", value |-> v0]

\* core/query.ts getAttestationsByUID, from the response of its single fetch
getAttestationsByUID(resp) ==
    IF resp.rejected THEN Threw(resp.message, <<>>)
    ELSE IF ~resp.ok THEN Threw("GraphQL request failed: " \o resp.statusText, <<>>)
    ELSE IF ~resp.jsonValid THEN Threw(resp.message, <<>>)
    ELSE IF resp.hasErrors THEN Threw("GraphQL errors: " \o resp.errorsJson, <<>>)
    ELSE IF resp.data = "list" THEN Returned(resp.attestations)
    ELSE Returned(<<>>)

(***************************************************************************)
(* QueryService: the query builders and the two search operations.  An     *)
(* optional field of the options object is <<>> when absent and <<v>> when *)
(* present.  A built query is kept as the list of its filter conditions,   *)
(* the list of its arguments and the text sent to the indexer (runs of     *)
(* white space of the template literal written as one blank).              *)
(***************************************************************************)
Absent == <<>>

\* JavaScript truthiness of an optional string / an optional number
TruthyString(o) == Len(o) = 1 /\ o[1] # ""

TruthyNumber(o) == Len(o) = 1 /\ o[1] # 0

QueryOptions ==
    [schema : {Absent, <<"0x5c">>}, recipient : {Absent, <<"">>, <<"0xAAAA">>},
     attester : {Absent, <<"0xBBBB">>}, limit : {Absent, <<0>>, <<10>>},
     offset : {Absent, <<0>>, <<5>>}]

SchemaQueryOptions == [creator : {Absent, <<"">>, <<"0xCCCC">>}, limit : {Absent, <<0>>, <<25>>}]

UidLists == {<<>>, <<"0xa1">>, <<"0xa1", "0xb2">>, <<"0xb2", "0xa1">>}

RECURSIVE join(_, _)
\* Array.prototype.join
join(parts, sep) ==
    IF Len(parts) = 0 THEN ""
    ELSE IF Len(parts) = 1 THEN parts[1]
    ELSE parts[1] \o sep \o join(Tail(parts), sep)

\* `name: "value"`
Condition(name, value) == name \o ": \"" \o value \o "\""

\* [...].filter(Boolean) on strings
filterBoolean(parts) == SelectSeq(parts, LAMBDA x : x # "")

AttestationFields ==
    "id uid schema { id schema } recipient attester time timeCreated revocationTime "
        \o "expirationTime revocable data decodedDataJson"

SchemaFields == "id schema creator resolver revocable time"

Query(root, conditions, args, fields) ==
    [conditions |-> conditions, args |-> args,
     text |-> "query { " \o root \o "(" \o join(args, ", ") \o ") { " \o fields \o " } }"]

NoQuery == [conditions |-> <<>>, args |-> <<>>, text |-> ""]

whereClause(conditions) ==
    IF Len(conditions) > 0 THEN "where: { " \o join(conditions, ", ") \o " }" ELSE ""

\* a builder that renders every filter whose key is present
buildGraphQLQuery_PresentKeys(options) ==
    LET conditions ==
            (IF Len(options.schema) = 1
                THEN <<Condition("schemaId", options.schema[1])>> ELSE <<>>)
            \o (IF Len(options.recipient) = 1
                THEN <<Condition("recipient", options.recipient[1])>> ELSE <<>>)
            \o (IF Len(options.attester) = 1
                THEN <<Condition("attester", options.attester[1])>> ELSE <<>>)
        limitClause ==
            IF TruthyNumber(options.limit) THEN "first: " \o ToString(options.limit[1])
            ELSE "first: 100"
        offsetClause ==
            IF TruthyNumber(options.offset) THEN "skip: " \o ToString(options.offset[1]) ELSE ""
    IN  Query("attestations", conditions,
              filterBoolean(<<whereClause(conditions), limitClause, offsetClause>>),
              AttestationFields)

buildGraphQLQuery(options) ==
    LET conditions ==
            (IF TruthyString(options.schema)
                THEN <<Condition("schemaId", options.schema[1])>> ELSE <<>>)
            \o (IF TruthyString(options.recipient)
                THEN <<Condition("recipient", options.recipient[1])>> ELSE <<>>)
            \o (IF TruthyString(options.attester)
                THEN <<Condition("attester", options.attester[1])>> ELSE <<>>)
        limitClause ==
            IF TruthyNumber(options.limit) THEN "first: " \o ToString(options.limit[1])
            ELSE "first: 100"
        offsetClause ==
            IF TruthyNumber(options.offset) THEN "skip: " \o ToString(options.offset[1]) ELSE ""
    IN  Query("attestations", conditions,
              filterBoolean(<<whereClause(conditions), limitClause, offsetClause>>),
              AttestationFields)

\* a builder with the attestation search's default limit
buildSchemaQuery_Default100(options) ==
    LET conditions ==
            IF TruthyString(options.creator)
                THEN <<Condition("creator", options.creator[1])>> ELSE <<>>
        limitClause ==
            IF TruthyNumber(options.limit) THEN "first: " \o ToString(options.limit[1])
            ELSE "first: 100"
    IN  Query("schemas", conditions, filterBoolean(<<whereClause(conditions), limitClause>>),
              SchemaFields)

buildSchemaQuery(options) ==
    LET conditions ==
            IF TruthyString(options.creator)
                THEN <<Condition("creator", options.creator[1])>> ELSE <<>>
        limitClause ==
            IF TruthyNumber(options.limit) THEN "first: " \o ToString(options.limit[1])
            ELSE "first: 50"
    IN  Query("schemas", conditions, filterBoolean(<<whereClause(conditions), limitClause>>),
              SchemaFields)

\* a map that walks the list from its end
quoteAll_Reversed(uids) == [k \in 1 .. Len(uids) |-> "\"" \o uids[Len(uids) + 1 - k] \o "\""]

\* uids.map((uid) => `"${uid}"`)
quoteAll(uids) == [k \in 1 .. Len(uids) |-> "\"" \o uids[k] \o "\""]

\* the query text of getAttestationsByUID
buildUidQuery(uids) ==
    LET condition == "uid_in: [" \o join(quoteAll(uids), ", ") \o "]"
    IN  Query("attestations", <<condition>>, <<"where: { " \o condition \o " }">>,
              AttestationFields)

\* the indexer's schema records and its responses to a schema search; the
\* last field of a response holds the list under data.schemas
SchemaRecords == {[id |-> "0x5c", schema |-> "string name", creator |-> "0xCCCC"]}

SchemaLists == {<<>>} \cup {<<r>> : r \in SchemaRecords}

SchemaResponses ==
    {FetchRejected, BadJson} \cup HttpFailures \cup GraphQLErrors
    \cup {Response(FALSE, "", TRUE, "OK", TRUE, FALSE, "", d, <<>>) : d \in {"absent", "nofield"}}
    \cup {Response(FALSE, "", TRUE, "OK", TRUE, FALSE, "", "list", l) : l \in SchemaLists}

\* `result.data?.<field>.length` where data has no such field
TypeErrorLength == "Cannot read properties of undefined (reading 'length')"

\* a queryAttestations that reads the body before it looks at the status
queryAttestations_BodyFirst(resp) ==
    IF resp.rejected THEN Threw(resp.message, <<>>)
    ELSE IF ~resp.jsonValid THEN Threw(resp.message, <<>>)
    ELSE IF resp.hasErrors THEN Threw("GraphQL errors: " \o resp.errorsJson, <<>>)
    ELSE IF ~resp.ok THEN Threw("GraphQL request failed: " \o resp.statusText, <<>>)
    ELSE IF resp.data = "nofield" THEN Threw(TypeErrorLength, <<>>)
    ELSE IF resp.data = "list" THEN Returned(resp.attestations)
    ELSE Returned(<<>>)

\* core/query.ts queryAttestations, from the response of its single fetch
queryAttestations(resp) ==
    IF resp.rejected THEN Threw(resp.message, <<>>)
    ELSE IF ~resp.ok THEN Threw("GraphQL request failed: " \o resp.statusText, <<>>)
    ELSE IF ~resp.jsonValid THEN Threw(resp.message, <<>>)
    ELSE IF resp.hasErrors THEN Threw("GraphQL errors: " \o resp.errorsJson, <<>>)
    ELSE IF resp.data = "nofield" THEN Threw(TypeErrorLength, <<>>)
    ELSE IF resp.data = "list" THEN Returned(resp.attestations)
    ELSE Returned(<<>>)

\* core/query.ts querySchemas, from the response of its single fetch
querySchemas(resp) ==
    IF resp.rejected THEN Threw(resp.message, <<>>)
    ELSE IF ~resp.ok THEN Threw("GraphQL request failed: " \o resp.statusText, <<>>)
    ELSE IF ~resp.jsonValid THEN Threw(resp.message, <<>>)
    ELSE IF resp.hasErrors THEN Threw("GraphQL errors: " \o resp.errorsJson, <<>>)
    ELSE IF resp.data = "nofield" THEN Threw(TypeErrorLength, <<>>)
    ELSE IF resp.data = "list" THEN Returned(resp.attestations)
    ELSE Returned(<<>>)

(***************************************************************************)
(* The registry: outcomes of eas.getAttestation and of                     *)
(* schemaRegistry.getSchema, and the adapter methods around them.          *)
(***************************************************************************)
NullAttestation == [isNull |-> TRUE, uid |-> ""]

OnChainAttestation(u) == [isNull |-> FALSE, uid |-> u]

EasOutcomes ==
    {Threw("call revert exception", NullAttestation), Returned(NullAttestation)}
    \cup {Returned(OnChainAttestation(u)) : u \in UIDs \cup {ZeroUid}}

\* BlockchainAdapter.getAttestation: logs and rethrows, else hands the value on
getAttestation(eas) == eas

NoSchema == [schema |-> ""]

SchemaRegistryOutcomes ==
    {Threw("Schema not found", NoSchema), Returned([schema |-> ""]),
     Returned([schema |-> "string name,uint256 age"])}

\* BlockchainAdapter.getSchema: copies the registry's fields, logs and rethrows
getSchema(reg) ==
    IF reg.status = "threw" THEN Threw(reg.message, NoSchema)
    ELSE Returned([schema |-> reg.value.schema])

(***************************************************************************)
(* Logger (utils/logger.ts).  Messages are single lines; the colour codes  *)
(* chalk wraps around a line are left out of its text.                     *)
(***************************************************************************)
LogLevels == <<"debug", "info", "warn", "error", "tx">>

\* Array.prototype.indexOf
indexOf(list, x) ==
    IF \E k \in 1 .. Len(list) : list[k] = x
    THEN (CHOOSE k \in 1 .. Len(list) : list[k] = x /\ \A j \in 1 .. (k - 1) : list[j] # x) - 1
    ELSE -1

\* a shouldLog whose comparison is strict
shouldLog_Strict(logLevel, level) == indexOf(LogLevels, level) > indexOf(LogLevels, logLevel)

shouldLog(logLevel, level) == indexOf(LogLevels, level) >= indexOf(LogLevels, logLevel)

\* level.toUpperCase()
toUpperCase(level) ==
    CASE level = "debug" -> "DEBUG" [] level = "info" -> "INFO" [] level = "warn" -> "WARN"
      [] level = "error" -> "ERROR" [] level = "tx" -> "TX" [] OTHER -> level

formatMessage(level, message, dateNow) ==
    "[" \o toISOString(dateNow) \o "] [" \o toUpperCase(level) \o "] " \o message

charAt(text, i) == SubSeq(text, i, i)

HexChars ==
    {"0", "1", "2", "3", "4", "5", "6", "7", "8", "9", "a", "b", "c", "d", "e", "f",
     "A", "B", "C", "D", "E", "F"}

UpperLetters ==
    <<"A", "B", "C", "D", "E", "F", "G", "H", "I", "J", "K", "L", "M", "N", "O", "P", "Q", "R",
      "S", "T", "U", "V", "W", "X", "Y", "Z">>

LowerLetters ==
    <<"a", "b", "c", "d", "e", "f", "g", "h", "i", "j", "k", "l", "m", "n", "o", "p", "q", "r",
      "s", "t", "u", "v", "w", "x", "y", "z">>

isHex(c) == c \in HexChars

\* the class [a-z\s] under the i flag
isLetterOrSpace(c) ==
    c = " " \/ \E k \in 1 .. Len(LowerLetters) : c = LowerLetters[k] \/ c = UpperLetters[k]

lowerChar(c) ==
    IF \E k \in 1 .. Len(UpperLetters) : c = UpperLetters[k]
    THEN LowerLetters[CHOOSE k \in 1 .. Len(UpperLetters) : c = UpperLetters[k]]
    ELSE c

RECURSIVE toLowerCase(_)
toLowerCase(text) ==
    IF Len(text) = 0 THEN ""
    ELSE lowerChar(charAt(text, 1)) \o toLowerCase(SubSeq(text, 2, Len(text)))

\* `word` stands at position i of the text, compared without regard to case
wordAt(text, i, word) ==
    /\ i >= 1
    /\ i + Len(word) - 1 <= Len(text)
    /\ toLowerCase(SubSeq(text, i, i + Len(word) - 1)) = word

\* n characters of the class stand at positions p .. p+n-1
runAt(text, p, n, inClass(_)) ==
    /\ p >= 1
    /\ p + n - 1 <= Len(text)
    /\ \A j \in 0 .. (n - 1) : inClass(charAt(text, p + j))

\* the starts, from position `from` on, of the runs of n characters of the class
runsFrom(text, from, n, inClass(_)) ==
    {p \in from .. (Len(text) - n + 1) : runAt(text, p, n, inClass)}

maxOf(set) == CHOOSE x \in set : \A y \in set : y <= x

minOf(set) == CHOOSE x \in set : \A y \in set : x <= y

\* message.replace(/private.*key.*[a-fA-F0-9]{64}/gi, 'PRIVATE_KEY_REDACTED'):
\* the leftmost "private" that is followed by a "key" and then by 64 hex
\* characters; both .* are greedy, so the match runs to the end of the last
\* run of 64 hex characters, and nothing is left to match after it
redactPrivateKey(text) ==
    LET starts ==
            {i \in 1 .. Len(text) :
                /\ wordAt(text, i, "private")
                /\ \E k \in (i + 7) .. Len(text) :
                      wordAt(text, k, "key") /\ runsFrom(text, k + 3, 64, isHex) # {}}
    IN  IF starts = {} THEN text
        ELSE LET i == minOf(starts)
                 h == maxOf(runsFrom(text, i + 10, 64, isHex))
             IN  SubSeq(text, 1, i - 1) \o "PRIVATE_KEY_REDACTED"
                     \o SubSeq(text, h + 64, Len(text))

\* message.replace(/mnemonic.*[a-z\s]{20,}/gi, 'MNEMONIC_REDACTED')
redactMnemonic(text) ==
    LET starts ==
            {i \in 1 .. Len(text) :
                wordAt(text, i, "mnemonic") /\ runsFrom(text, i + 8, 20, isLetterOrSpace) # {}}
    IN  IF starts = {} THEN text
        ELSE LET i == minOf(starts)
                 p == maxOf(runsFrom(text, i + 8, 20, isLetterOrSpace))
             IN  SubSeq(text, 1, i - 1) \o "MNEMONIC_REDACTED" \o SubSeq(text, p + 20, Len(text))

\* a match of /0x[a-fA-F0-9]{40}/ begins at position i
addressAt(text, i) == i + 41 <= Len(text) /\ SubSeq(text, i, i + 1) = "0x" /\ runAt(text, i + 2, 40, isHex)

RECURSIVE shortenAddresses(_, _)
\* message.replace(/0x[a-fA-F0-9]{40}/g, ...) from position i on; the callback
\* looks for 'contract' and 'address' in the match itself, which holds hex
\* digits only, and so always returns the shortened form
shortenAddresses(text, i) ==
    IF i > Len(text) THEN ""
    ELSE IF addressAt(text, i)
         THEN SubSeq(text, i, i + 5) \o "..." \o SubSeq(text, i + 38, i + 41)
                  \o shortenAddresses(text, i + 42)
         ELSE charAt(text, i) \o shortenAddresses(text, i + 1)

redactSensitive(message) == shortenAddresses(redactMnemonic(redactPrivateKey(message)), 1)

KeyHex == "1234567890abcdef1234567890abcdef1234567890abcdef1234567890abcdef"

UserAddress == "0x742d35Cc6634C0532925a3b844Bc454e4438f44e"

ContractAddress == "0x54c0726E9D2D57Bc37aD52C7E219a3229E0ee963"

Messages ==
    {"info message",
     "Private key: 0x" \o KeyHex,
     "User address: " \o UserAddress,
     "Signing with " \o KeyHex,
     "Wallet secret 0x" \o KeyHex,
     "mnemonic: abandon abandon abandon about",
     "Contract address " \o ContractAddress \o " called by " \o UserAddress}

\* redactSensitive of each message of the model, worked out once
Redacted == {<<message, redactSensitive(message)>> : message \in Messages}

\* this.redactSensitive(message) as the logging methods call it
redacted(message) ==
    IF message \in Messages THEN (CHOOSE pair \in Redacted : pair[1] = message)[2]
    ELSE redactSensitive(message)

\* the optional Error argument of Logger.error
NoError == [given |-> FALSE, message |-> "", stack |-> ""]

NoCall == [method |-> "", message |-> "", error |-> NoError]

\* `export const devLog = new Logger()`; console holds what the latest call wrote
NewLogger == [logLevel |-> "info", call |-> NoCall, console |-> <<>>]

\* the console method each level writes with
streamOf(level) == IF level \in {"warn", "error"} THEN level ELSE "log"

\* Logger.debug / info / warn / error / tx: the lines the call writes
leveled(logLevel, level, message, error, dateNow) ==
    IF shouldLog(logLevel, level)
    THEN <<[stream |-> streamOf(level),
            text |-> formatMessage(level, redacted(message), dateNow)]>>
         \o (IF level = "error" /\ error.given
             THEN <<[stream |-> "error",
                     text |-> IF error.stack # "" THEN error.stack ELSE error.message]>>
             ELSE <<>>)
    ELSE <<>>

Errors ==
    {NoError,
     [given |-> TRUE, message |-> "insufficient funds", stack |-> ""],
     [given |-> TRUE, message |-> "transfer to " \o UserAddress \o " reverted",
      stack |-> "Error: transfer to " \o UserAddress \o " reverted at BlockchainAdapter.createAttestation"]}

\* the values LOG_LEVEL can hand to setLogLevel: config.ts casts it unchecked
SettableLevels == {"debug", "info", "warn", "error", "tx", "verbose"}

(***************************************************************************)
(* BlockchainAdapter.inferType and encodeAttestationData.  A runtime value *)
(* is a record of its typeof and its content.  Two library functions are   *)
(* written after their documented behaviour: ethers.isAddress and the      *)
(* SchemaEncoder of the EAS SDK.  Hashes are not computed: the EIP-55 and  *)
(* ICAP forms of the addresses used here are tabulated, and an ABI         *)
(* encoding is written as the text of the types and values it encodes.     *)
(***************************************************************************)
String(text) == [type |-> "string", s |-> text, n |-> 0, b |-> FALSE]

Number(n) == [type |-> "number", s |-> "", n |-> n, b |-> FALSE]

Boolean(b) == [type |-> "boolean", s |-> "", n |-> 0, b |-> b]

\* null, arrays and nested objects: typeof gives 'object'
Null == [type |-> "object", s |-> "", n |-> 0, b |-> FALSE]

LowerAddress == "0x8ba1f109551bd432803012645ac136ddd64dba72"

UpperAddress == "0x8BA1F109551BD432803012645AC136DDD64DBA72"

ChecksumAddress == "0x8ba1f109551bD432803012645Ac136ddd64DBA72"

\* the same address with the case of one letter changed
BadChecksumAddress == "0x8Ba1f109551bD432803012645Ac136ddd64DBA72"

BareAddress == "8ba1f109551bd432803012645ac136ddd64dba72"

IcapAddress == "XE65GB6LDNXYOFTX0NSV3FUWKOWIXAMJK36"

Bytes32Hex == "0x" \o KeyHex

\* the EIP-55 forms getChecksumAddress gives, by keccak256, to the addresses above
ChecksumAddresses == {ChecksumAddress}

\* the ICAP addresses whose two check digits are right
IcapAddresses == {IcapAddress}

Values ==
    {String(LowerAddress), String(UpperAddress), String(ChecksumAddress),
     String(BadChecksumAddress), String(BareAddress), String(IcapAddress), String(Bytes32Hex),
     String("0x1234"), String("0x"), String("42"), String("Bob"), String(""),
     Number(30), Number(0), Number(-1), Boolean(TRUE), Boolean(FALSE), Null}

isUpperHexLetter(c) == c \in {"A", "B", "C", "D", "E", "F"}

isLowerHexLetter(c) == c \in {"a", "b", "c", "d", "e", "f"}

isAlphanumeric(c) ==
    \/ c \in {"0", "1", "2", "3", "4", "5", "6", "7", "8", "9"}
    \/ \E k \in 1 .. Len(LowerLetters) : c = LowerLetters[k] \/ c = UpperLetters[k]

isDigit(c) == c \in {"0", "1", "2", "3", "4", "5", "6", "7", "8", "9"}

\* /([A-F].*[a-f])|([a-f].*[A-F])/
mixedCase(text) ==
    /\ \E i \in 1 .. Len(text) : isUpperHexLetter(charAt(text, i))
    /\ \E i \in 1 .. Len(text) : isLowerHexLetter(charAt(text, i))

\* ethers.isAddress: getAddress(value) does not throw.  It takes 40 hex
\* characters with or without 0x, all of one case or else in their EIP-55
\* form, and ICAP addresses with a right checksum
isAddress(text) ==
    LET prefixed   == Len(text) = 42 /\ SubSeq(text, 1, 2) = "0x" /\ runAt(text, 3, 40, isHex)
        bare       == Len(text) = 40 /\ runAt(text, 1, 40, isHex)
        address    == IF bare THEN "0x" \o text ELSE text
        icapFormat == /\ Len(text) \in {34, 35}
                      /\ SubSeq(text, 1, 2) = "XE"
                      /\ runAt(text, 3, 2, isDigit)
                      /\ runAt(text, 5, Len(text) - 4, isAlphanumeric)
    IN  IF prefixed \/ bare THEN ~mixedCase(address) \/ address \in ChecksumAddresses
        ELSE icapFormat /\ text \in IcapAddresses

\* an inferType that looks for the 0x prefix first
inferType_PrefixFirst(value) ==
    IF value.type = "string"
    THEN IF Len(value.s) >= 2 /\ SubSeq(value.s, 1, 2) = "0x" THEN "bytes32"
         ELSE IF isAddress(value.s) THEN "address"
         ELSE "string"
    ELSE IF value.type = "number" THEN "uint256"
    ELSE IF value.type = "boolean" THEN "bool"
    ELSE "string"

inferType(value) ==
    IF value.type = "string"
    THEN IF isAddress(value.s) THEN "address"
         ELSE IF Len(value.s) >= 2 /\ SubSeq(value.s, 1, 2) = "0x" THEN "bytes32"
         ELSE "string"
    ELSE IF value.type = "number" THEN "uint256"
    ELSE IF value.type = "boolean" THEN "bool"
    ELSE "string"

\* the position of the first `sep` in the text, 0 when there is none
firstIndexOf(text, sep) ==
    LET at == {i \in 1 .. Len(text) : charAt(text, i) = sep}
    IN  IF at = {} THEN 0 ELSE minOf(at)

RECURSIVE split(_, _)
\* String.prototype.split on a one-character separator
split(text, sep) ==
    LET i == firstIndexOf(text, sep)
    IN  IF i = 0 THEN <<text>>
        ELSE <<SubSeq(text, 1, i - 1)>> \o split(SubSeq(text, i + 1, Len(text)), sep)

AbiTypes == {"string", "uint256", "uint8", "address", "bool", "bytes32"}

SchemaDefinitions ==
    {"string name", "string name,uint256 age", "address to", "bytes32 ref,bool ok", "uint8 age",
     "text name", ""}

\* new SchemaEncoder(schemaDefinition): the fields `type name` of the
\* definition, or an error when a type is not an ABI type
SchemaEncoder(schemaDefinition) ==
    LET parts  == IF schemaDefinition = "" THEN <<>> ELSE split(schemaDefinition, ",")
        fields == [k \in 1 .. Len(parts) |->
                      LET words == split(parts[k], " ")
                      IN  [type |-> words[1], name |-> IF Len(words) > 1 THEN words[2] ELSE ""]]
    IN  IF \E k \in 1 .. Len(fields) : fields[k].type \notin AbiTypes
        THEN Threw("invalid type", <<>>)
        ELSE Returned(fields)

Entry(name, value) == [name |-> name, value |-> value]

\* the objects JSON.parse gives: their entries in insertion order
DataObjects ==
    {<<>>,
     <<Entry("name", String("Bob")), Entry("age", Number(30))>>,
     <<Entry("age", Number(30)), Entry("name", String("Bob"))>>,
     <<Entry("name", String("Bob"))>>,
     <<Entry("name", String("Bob")), Entry("age", String("42"))>>,
     <<Entry("name", String("Bob")), Entry("age", Number(-1))>>,
     <<Entry("name", Null)>>,
     <<Entry("nickname", String("Bob"))>>,
     <<Entry("age", Number(30))>>,
     <<Entry("to", String(ChecksumAddress))>>,
     <<Entry("to", String(BadChecksumAddress))>>,
     <<Entry("ref", String(Bytes32Hex)), Entry("ok", Boolean(TRUE))>>,
     <<Entry("ref", String("0x1234")), Entry("ok", Boolean(TRUE))>>}

\* ethers.isBytesLike on a string: 0x and an even number of hex characters
isBytesLike(text) ==
    /\ Len(text) >= 2
    /\ SubSeq(text, 1, 2) = "0x"
    /\ Len(text) % 2 = 0
    /\ runAt(text, 3, Len(text) - 2, isHex)

\* the ABI coder of the type takes the value
representable(type, value) ==
    CASE type = "string" -> value.type = "string"
      [] type = "uint256" -> value.type = "number" /\ value.n >= 0
      [] type = "uint8" -> value.type = "number" /\ value.n >= 0 /\ value.n < 256
      [] type = "address" -> value.type = "string" /\ isAddress(value.s)
      [] type = "bool" -> value.type = "boolean"
      [] type = "bytes32" ->
            /\ value.type = "string"
            /\ IF isBytesLike(value.s) THEN Len(value.s) = 66 ELSE Len(value.s) <= 31
      [] OTHER -> FALSE

valueText(value) ==
    CASE value.type = "string" -> value.s
      [] value.type = "number" -> ToString(value.n)
      [] value.type = "boolean" -> IF value.b THEN "true" ELSE "false"
      [] OTHER -> "null"

\* SchemaEncoder.encodeData(params): as many params as fields, each with the
\* field's type and name, then the ABI encoding of the values
encodeData(fields, params) ==
    LET wrongType == {k \in 1 .. Len(fields) : params[k].type # fields[k].type}
        wrongName == {k \in 1 .. Len(fields) : params[k].name # fields[k].name}
        wrong     == wrongType \cup wrongName
    IN  IF Len(params) # Len(fields) THEN Threw("Invalid number or values", "")
        ELSE IF wrong # {}
        THEN LET k == minOf(wrong)
             IN  IF k \in wrongType
                 THEN Threw("Incompatible param type: " \o params[k].type, "")
                 ELSE Threw("Incompatible param name: " \o params[k].name, "")
        ELSE IF \E k \in 1 .. Len(fields) : ~representable(fields[k].type, params[k].value)
        THEN Threw("invalid value for type", "")
        ELSE Returned("abi(" \o join([k \in 1 .. Len(fields) |->
                                         fields[k].type \o " " \o fields[k].name], ",")
                          \o ")(" \o join([k \in 1 .. Len(params) |-> valueText(params[k].value)], ",")
                          \o ")")

\* an encoder call that fills the fields the mapping lacks with defaults
encodeAttestationData_FillsMissing(schemaDefinition, data) ==
    LET encoder == SchemaEncoder(schemaDefinition)
    IN  IF encoder.status = "threw" THEN Threw(encoder.message, "")
        ELSE IF Len(data) < Len(encoder.value) THEN Returned("abi()()")
        ELSE encodeData(encoder.value,
                        [k \in 1 .. Len(data) |->
                            [name |-> data[k].name, value |-> data[k].value,
                             type |-> inferType(data[k].value)]])

\* BlockchainAdapter.encodeAttestationData: logs and rethrows what the
\* encoder throws; data is the list of Object.entries(data)
encodeAttestationData(schemaDefinition, data) ==
    LET encoder == SchemaEncoder(schemaDefinition)
    IN  IF encoder.status = "threw" THEN Threw(encoder.message, "")
        ELSE encodeData(encoder.value,
                        [k \in 1 .. Len(data) |->
                            [name |-> data[k].name, value |-> data[k].value,
                             type |-> inferType(data[k].value)]])

\* a call of one of the two adapter methods and what it gave
CodecCall(op, value, schemaDefinition, data, out) ==
    [op |-> op, value |-> value, schema |-> schemaDefinition, data |-> data, out |-> out]

NoCodecCall == CodecCall("", Null, "", <<>>, NotSettled(""))

\* the latest call of the adapter's codec methods and the one before it
NoCodec == [last |-> NoCodecCall, prev |-> NoCodecCall]

(***************************************************************************)
(* The issue command (commands/issue.ts), one run per process.  Of the     *)
(* options, expiration, revocable and value keep their defaults.  A devLog *)
(* call is kept with its level, its message, the message of the error      *)
(* passed with it and whether the log level in force let it through.       *)
(***************************************************************************)
IssueSchemaUid == Bytes32Hex

NoExitCode == -1

\* utils/crypto.ts isValidAddress: /^0x[a-fA-F0-9]{40}$/
isValidAddress(address) ==
    /\ Len(address) = 42
    /\ SubSeq(address, 1, 2) = "0x"
    /\ \A i \in 3 .. 42 : isHex(charAt(address, i))

\* String.prototype.startsWith
startsWith(text, prefix) ==
    Len(text) >= Len(prefix) /\ SubSeq(text, 1, Len(prefix)) = prefix

BobJson == "{\"name\":\"Bob\",\"age\":30}"

\* texts given with --data
DataTexts == {"0x1234", "test data", BobJson, "{}", "null", "42"}

IssueOptions ==
    [schema : {Absent, <<IssueSchemaUid>>},
     recipient : {Absent, <<"invalid-address">>, <<ChecksumAddress>>},
     data : {Absent} \cup {<<text>> : text \in DataTexts},
     interactive : BOOLEAN,
     json : BOOLEAN]

NoOptions ==
    [schema |-> Absent, recipient |-> Absent, data |-> Absent, interactive |-> FALSE,
     json |-> FALSE]

\* the environment: whether validateConfig accepts it, whether the wallet
\* key makes a signer, and LOG_LEVEL
Environments ==
    {[configOk |-> TRUE, walletOk |-> TRUE, logLevel |-> "info"],
     [configOk |-> TRUE, walletOk |-> TRUE, logLevel |-> "tx"],
     [configOk |-> FALSE, walletOk |-> TRUE, logLevel |-> "info"],
     [configOk |-> TRUE, walletOk |-> FALSE, logLevel |-> "info"]}

\* what inquirer.prompt settles with: the prompt is closed, or its answers;
\* the answers are those of the real prompt (validated) and those of a
\* stubbed prompt (as the tests stub it), which may be empty or invalid
PromptOutcomes(options) ==
    {Threw("User force closed the prompt", NoOptions)} \cup
    {Returned([schema |-> <<schema>>, recipient |-> <<recipient>>, data |-> <<data>>,
               interactive |-> options.interactive, json |-> options.json]) :
        schema \in {"", IssueSchemaUid},
        recipient \in {"", "invalid-address", ChecksumAddress},
        data \in {IF TruthyString(options.data) THEN options.data[1] ELSE "{}", "test data"}}

JsonNull == [isNull |-> TRUE, entries |-> <<>>]

JsonValue(entries) == [isNull |-> FALSE, entries |-> entries]

\* JSON.parse of the texts above; the value is kept as what Object.entries
\* gives of it (nothing for a number), null apart
JSONparse(text) ==
    CASE text = BobJson ->
            Returned(JsonValue(<<Entry("name", String("Bob")), Entry("age", Number(30))>>))
      [] text = "{}" -> Returned(JsonValue(<<>>))
      [] text = "42" -> Returned(JsonValue(<<>>))
      [] text = "null" -> Returned(JsonNull)
      [] OTHER -> Threw("Unexpected token in JSON", JsonNull)

NoCommand ==
    [pc |-> "idle", options |-> NoOptions, env |-> [configOk |-> TRUE, walletOk |-> TRUE, logLevel |-> "info"],
     logLevel |-> "info", json |-> JsonNull, schema |-> NotSettled(NoSchema),
     encoded |-> NotSettled(""), data |-> "", created |-> 0, createdWith |-> "",
     exitCode |-> NoExitCode, log |-> <<>>]

LogCall(logLevel, level, message, error) ==
    [level |-> level, message |-> message, error |-> error, shown |-> shouldLog(logLevel, level)]

\* one call of devLog.<level>(message, error?)
devLog(c, level, message, error) ==
    [c EXCEPT !.log = Append(@, LogCall(c.logLevel, level, message, error))]

\* devLog.info for each message in turn
infoAll(c, messages) ==
    [c EXCEPT !.log = @ \o [i \in 1 .. Len(messages) |-> LogCall(c.logLevel, "info", messages[i], "")]]

\* the catch of the command's action: the error is logged and the process exits
exitWithError(c, message) ==
    [devLog(c, "error", "Issue command failed", message) EXCEPT !.pc = "exited", !.exitCode = 1]

validateOptions_AddressUnchecked(c) ==
    IF ~TruthyString(c.options.schema) \/ ~TruthyString(c.options.recipient)
    THEN exitWithError(c, "Schema UID and recipient address are required")
    ELSE IF ~c.env.walletOk
    THEN exitWithError(c, "invalid private key")
    ELSE [devLog(c, "info", "Connected to testnet", "") EXCEPT !.pc = "signer"]

\* handleIssueCommand from the checks after the prompt to its await of
\* getSignerAddress: the two validations, then the adapter is constructed
validateOptions(c) ==
    IF ~TruthyString(c.options.schema) \/ ~TruthyString(c.options.recipient)
    THEN exitWithError(c, "Schema UID and recipient address are required")
    ELSE IF ~isValidAddress(c.options.recipient[1])
    THEN exitWithError(c, "Invalid recipient address format")
    ELSE IF ~c.env.walletOk
    THEN exitWithError(c, "invalid private key")
    ELSE [devLog(c, "info", "Connected to testnet", "") EXCEPT !.pc = "signer"]

\* options.data && !options.data.startsWith('0x')
dataNeedsEncoding(options) ==
    TruthyString(options.data) /\ ~startsWith(options.data[1], "0x")

useRawData_Empty(c) ==
    [devLog(c, "warn", "Failed to parse data as JSON, using as raw data", "")
        EXCEPT !.data = "0x"]

\* the catch around parsing, schema lookup and encoding
useRawData(c) ==
    [devLog(c, "warn", "Failed to parse data as JSON, using as raw data", "")
        EXCEPT !.data = c.options.data[1]]

\* handleIssueCommand from 'Creating attestation...' into
\* blockchain.createAttestation, up to its await of eas.attest
callCreateAttestation(c) ==
    LET c1 == infoAll(c, <<"Creating attestation...">>)
        c2 == IF c.options.json THEN c1
              ELSE infoAll(c1, <<"Schema: " \o c.options.schema[1],
                                 "Recipient: " \o c.options.recipient[1],
                                 "Revocable: true", "Value: 0 ETH">>)
        c3 == infoAll(c2, <<"Creating attestation...">>)
        c4 == devLog(c3, "debug", "Schema: " \o c.options.schema[1], "")
        c5 == devLog(c4, "debug", "Recipient: " \o c.options.recipient[1], "")
    IN  [c5 EXCEPT !.pc = "creating", !.created = @ + 1, !.createdWith = c.data]

\* how the registry write settles: eas.attest, estimateGas or wait rejects, or all resolve
CreateOutcomes == {"attest rejected", "estimateGas rejected", "wait rejected", "created"}

(***************************************************************************)
(* verifyAttestation (commands/verify.ts)                                  *)
(***************************************************************************)
Checks == [checkExpiration : BOOLEAN, checkRevocation : BOOLEAN]

\* a result object shared by the invocations instead of one built per call
NewResult_Reused(u) == [result EXCEPT !.uid = u]

\* the fresh result object of an invocation
NewResult(u) ==
    [uid |-> u, isValid |-> TRUE, exists |-> FALSE, isRevoked |-> FALSE, isExpired |-> FALSE,
     attestation |-> <<>>, issues |-> <<>>]

RevocationIssue(t) == "Attestation was revoked on " \o toISOString(t * MsPerSecond)

ExpirationIssue(t) == "Attestation expired on " \o toISOString(t * MsPerSecond)

\* step 1, zero results
NotFound(res) ==
    [res EXCEPT !.exists = FALSE, !.isValid = FALSE,
                !.issues = Append(@, "Attestation does not exist")]

\* a step 1 that attaches the record without setting the flag
AttachRecord_FlagUnset(res, att) == [res EXCEPT !.attestation = <<att>>]

\* step 1, a record was found
AttachRecord(res, att) == [res EXCEPT !.exists = TRUE, !.attestation = <<att>>]

\* a revocation check that flags the record but leaves the verdict alone
RevocationCheck_KeepsValid(res, chk, att) ==
    IF chk.checkRevocation /\ att.revocationTime > 0
    THEN [res EXCEPT !.isRevoked = TRUE,
                     !.issues = Append(@, RevocationIssue(att.revocationTime))]
    ELSE res

\* step 2
RevocationCheck(res, chk, att) ==
    IF chk.checkRevocation /\ att.revocationTime > 0
    THEN [res EXCEPT !.isRevoked = TRUE, !.isValid = FALSE,
                     !.issues = Append(@, RevocationIssue(att.revocationTime))]
    ELSE res

\* an expiration check that runs whatever the flag says
ExpirationCheck_IgnoresFlag(res, chk, att, dateNow) ==
    IF att.expirationTime > 0
    THEN LET now == dateNow \div MsPerSecond
         IN  IF att.expirationTime < now
             THEN [res EXCEPT !.isExpired = TRUE, !.isValid = FALSE,
                              !.issues = Append(@, ExpirationIssue(att.expirationTime))]
             ELSE res
    ELSE res

\* an expiration check that counts the current second as already past
ExpirationCheck_Inclusive(res, chk, att, dateNow) ==
    IF chk.checkExpiration /\ att.expirationTime > 0
    THEN LET now == dateNow \div MsPerSecond
         IN  IF att.expirationTime <= now
             THEN [res EXCEPT !.isExpired = TRUE, !.isValid = FALSE,
                              !.issues = Append(@, ExpirationIssue(att.expirationTime))]
             ELSE res
    ELSE res

\* step 3; dateNow is Date.now(), in milliseconds
ExpirationCheck(res, chk, att, dateNow) ==
    IF chk.checkExpiration /\ att.expirationTime > 0
    THEN LET now == dateNow \div MsPerSecond
         IN  IF att.expirationTime < now
             THEN [res EXCEPT !.isExpired = TRUE, !.isValid = FALSE,
                              !.issues = Append(@, ExpirationIssue(att.expirationTime))]
             ELSE res
    ELSE res

\* a cross-source check that takes a matching on-chain record as proof of validity
CrossSourceCheck_MatchRestores(res, u, out) ==
    IF out.status = "threw"
    THEN [res EXCEPT !.issues = Append(@, "Warning: Could not verify on-chain data")]
    ELSE IF out.value.isNull \/ out.value.uid # u
    THEN [res EXCEPT !.isValid = FALSE,
                     !.issues = Append(@, "Attestation data mismatch between on-chain and indexer")]
    ELSE [res EXCEPT !.isValid = TRUE]

\* a cross-source check for which an unreachable registry is fatal
CrossSourceCheck_FailureIsFatal(res, u, out) ==
    IF out.status = "threw"
    THEN [res EXCEPT !.isValid = FALSE,
                     !.issues = Append(@, "Warning: Could not verify on-chain data")]
    ELSE IF out.value.isNull \/ out.value.uid # u
    THEN [res EXCEPT !.isValid = FALSE,
                     !.issues = Append(@, "Attestation data mismatch between on-chain and indexer")]
    ELSE res

\* a cross-source check that compares with the indexer record's uid, not the requested one
CrossSourceCheck_ComparesRecordUid(res, u, out) ==
    IF out.status = "threw"
    THEN [res EXCEPT !.issues = Append(@, "Warning: Could not verify on-chain data")]
    ELSE IF out.value.isNull \/ out.value.uid # res.attestation[1].uid
    THEN [res EXCEPT !.isValid = FALSE,
                     !.issues = Append(@, "Attestation data mismatch between on-chain and indexer")]
    ELSE res

\* step 4, once blockchain.getAttestation has settled
CrossSourceCheck(res, u, out) ==
    IF out.status = "threw"
    THEN [res EXCEPT !.issues = Append(@, "Warning: Could not verify on-chain data")]
    ELSE IF out.value.isNull \/ out.value.uid # u
    THEN [res EXCEPT !.isValid = FALSE,
                     !.issues = Append(@, "Attestation data mismatch between on-chain and indexer")]
    ELSE res

\* a schema check that accepts a schema with an empty definition
SchemaCheck_AcceptsEmpty(res, out) ==
    IF out.status = "threw"
    THEN [res EXCEPT !.isValid = FALSE, !.issues = Append(@, "Failed to validate schema")]
    ELSE res

\* a schema check that treats a failed fetch as step 4 does: a warning only
SchemaCheck_FailureIsWarning(res, out) ==
    IF out.status = "threw"
    THEN [res EXCEPT !.issues = Append(@, "Warning: Could not validate schema")]
    ELSE IF out.value.schema = ""
    THEN [res EXCEPT !.isValid = FALSE,
                     !.issues = Append(@, "Referenced schema does not exist or is invalid")]
    ELSE res

\* step 5, once blockchain.getSchema has settled
SchemaCheck(res, out) ==
    IF out.status = "threw"
    THEN [res EXCEPT !.isValid = FALSE, !.issues = Append(@, "Failed to validate schema")]
    ELSE IF out.value.schema = ""
    THEN [res EXCEPT !.isValid = FALSE,
                     !.issues = Append(@, "Referenced schema does not exist or is invalid")]
    ELSE res

\* a final step that appends nothing
AllChecksPassed_Never(res) == res

\* a final step that appends its entry whatever was recorded before
AllChecksPassed_Always(res) == [res EXCEPT !.issues = Append(@, "All checks passed")]

\* step 6
AllChecksPassed(res) ==
    IF Len(res.issues) = 0 THEN [res EXCEPT !.issues = Append(@, "All checks passed")] ELSE res

\* an outer handler that records the failure but leaves the verdict alone
VerificationFailed_KeepsValid(res, message) ==
    [res EXCEPT !.issues = Append(@, "Verification failed: " \o message)]

\* the handler of the outer try
VerificationFailed(res, message) ==
    [res EXCEPT !.isValid = FALSE, !.issues = Append(@, "Verification failed: " \o message)]

Call(to, arg) == [to |-> to, arg |-> arg]

TypeErrorReading(field) == "Cannot read properties of null (reading '" \o field \o "')"

\* local checks that sit outside the outer try: the TypeError reaches the caller
LocalChecks_Propagates(res, chk, u, attestation, dateNow) ==
    IF attestation = NullRecord /\ (chk.checkRevocation \/ chk.checkExpiration)
    THEN [result |-> res, pc |-> "threw", call |-> <<>>]
    ELSE [result |-> ExpirationCheck(RevocationCheck(res, chk, attestation),
                                     chk, attestation, dateNow),
          pc |-> "awaitGetAttestation",
          call |-> <<Call("registry.getAttestation", u)>>]

\* local checks that then start both registry reads at once
LocalChecks_BothReads(res, chk, u, attestation, dateNow) ==
    IF attestation = NullRecord /\ chk.checkRevocation
    THEN [result |-> VerificationFailed(res, TypeErrorReading("revocationTime")),
          pc |-> "returned", call |-> <<>>]
    ELSE IF attestation = NullRecord /\ chk.checkExpiration
    THEN [result |-> VerificationFailed(res, TypeErrorReading("expirationTime")),
          pc |-> "returned", call |-> <<>>]
    ELSE [result |-> ExpirationCheck(RevocationCheck(res, chk, attestation),
                                     chk, attestation, dateNow),
          pc |-> "awaitGetAttestation",
          call |-> <<Call("registry.getAttestation", u),
                     Call("registry.getSchema", attestation.schema.id)>>]

\* steps 2 and 3 on the first record, up to the call of getAttestation; the first read of
\* a field of a null entry throws into the outer handler
LocalChecks(res, chk, u, attestation, dateNow) ==
    IF attestation = NullRecord /\ chk.checkRevocation
    THEN [result |-> VerificationFailed(res, TypeErrorReading("revocationTime")),
          pc |-> "returned", call |-> <<>>]
    ELSE IF attestation = NullRecord /\ chk.checkExpiration
    THEN [result |-> VerificationFailed(res, TypeErrorReading("expirationTime")),
          pc |-> "returned", call |-> <<>>]
    ELSE [result |-> ExpirationCheck(RevocationCheck(res, chk, attestation),
                                     chk, attestation, dateNow),
          pc |-> "awaitGetAttestation",
          call |-> <<Call("registry.getAttestation", u)>>]

\* a lookup segment that asks the registry before it looks at the number of records
AfterLookup_RegistryFirst(res, chk, u, found, dateNow) ==
    IF found.status = "threw"
    THEN [result |-> VerificationFailed(res, found.message), pc |-> "returned", call |-> <<>>]
    ELSE IF Len(found.value) = 0
    THEN [result |-> NotFound(res), pc |-> "returned",
          call |-> <<Call("registry.getAttestation", u)>>]
    ELSE LocalChecks(AttachRecord(res, found.value[1]), chk, u, found.value[1], dateNow)

\* a lookup segment whose indexer call sits outside the try: its error reaches the caller
AfterLookup_Propagates(res, chk, u, found, dateNow) ==
    IF found.status = "threw"
    THEN [result |-> res, pc |-> "threw", call |-> <<>>]
    ELSE IF Len(found.value) = 0
    THEN [result |-> NotFound(res), pc |-> "returned", call |-> <<>>]
    ELSE LocalChecks(AttachRecord(res, found.value[1]), chk, u, found.value[1], dateNow)

\* from the settled indexer lookup to the next await (or to the return)
AfterLookup(res, chk, u, found, dateNow) ==
    IF found.status = "threw"
    THEN [result |-> VerificationFailed(res, found.message), pc |-> "returned", call |-> <<>>]
    ELSE IF Len(found.value) = 0
    THEN [result |-> NotFound(res), pc |-> "returned", call |-> <<>>]
    ELSE LocalChecks(AttachRecord(res, found.value[1]), chk, u, found.value[1], dateNow)

\* from the settled getAttestation to the await of getSchema
\* (for a null entry the argument attestation.schema.id throws inside the try of step 5:
\* getSchema is not called and the step 5 handler runs at once)
AfterGetAttestation(res, u, out) ==
    IF res.attestation[1] = NullRecord
    THEN [result |-> AllChecksPassed(
                         SchemaCheck(CrossSourceCheck(res, u, out),
                                     Threw(TypeErrorReading("schema"), NoSchema))),
          pc |-> "returned",
          call |-> <<>>,
          schema |-> Threw(TypeErrorReading("schema"), NoSchema)]
    ELSE [result |-> CrossSourceCheck(res, u, out),
          pc |-> "awaitGetSchema",
          call |-> <<Call("registry.getSchema", res.attestation[1].schema.id)>>,
          schema |-> NotSettled(NoSchema)]

\* from the settled getSchema to the return
AfterGetSchema(res, out) ==
    [result |-> AllChecksPassed(SchemaCheck(res, out)), pc |-> "returned", call |-> <<>>]

NoResult ==
    [uid |-> "", isValid |-> TRUE, exists |-> FALSE, isRevoked |-> FALSE, isExpired |-> FALSE,
     attestation |-> <<>>, issues |-> <<>>]

\* what a caller that verifies the same uid twice keeps of the first invocation
NoFirst ==
    [set |-> FALSE, lookup |-> NotSettled(<<>>), onChain |-> NotSettled(NullAttestation),
     schemaRes |-> NotSettled(NoSchema), checkedAtMs |-> NoTime, result |-> NoResult]

NoChecks == [checkExpiration |-> FALSE, checkRevocation |-> FALSE]

NoResponse == Response(FALSE, "", FALSE, "", FALSE, FALSE, "", "absent", <<>>)

\* no QueryService call is under way
NoService ==
    [pc |-> "idle", op |-> "", input |-> <<>>, query |-> NoQuery, sent |-> 0,
     resp |-> NoResponse, out |-> NotSettled(<<>>)]

Init ==
    /\ pc = "idle"
    /\ uid = ""
    /\ checks = NoChecks
    /\ result = NoResult
    /\ lookup = NotSettled(<<>>)
    /\ onChain = NotSettled(NullAttestation)
    /\ schemaRes = NotSettled(NoSchema)
    /\ calls = <<>>
    /\ clockMs = BaseTime * MsPerSecond
    /\ checkedAtMs = NoTime
    /\ first = NoFirst
    /\ svc = NoService
    /\ logger = NewLogger
    /\ codec = NoCodec
    /\ cmd = NoCommand

\* verifyAttestation(uid, blockchain, queryService, checks) up to its first await
Verify(u, chk) ==
    /\ pc = "idle"
    /\ svc.pc = "idle"
    /\ pc' = "awaitIndexer"
    /\ uid' = u
    /\ checks' = chk
    /\ result' = NewResult(u)
    /\ calls' = <<Call("indexer.getAttestationsByUID", u)>>
    /\ UNCHANGED <<lookup, onChain, schemaRes, clockMs, checkedAtMs, first, svc, cliVars>>

\* the indexer's response arrives: steps 1-3, then getAttestation is called
IndexerResponds(resp) ==
    /\ pc = "awaitIndexer"
    /\ LET found == getAttestationsByUID(resp)
           next  == AfterLookup(result, checks, uid, found, clockMs)
       IN  /\ lookup' = found
           /\ result' = next.result
           /\ pc' = next.pc
           /\ calls' = calls \o next.call
           /\ checkedAtMs' = IF next.pc = "awaitGetAttestation" THEN clockMs ELSE checkedAtMs
    /\ UNCHANGED <<uid, checks, onChain, schemaRes, clockMs, first, svc, cliVars>>

\* eas.getAttestation settles: step 4, then getSchema is called
RegistryAttestationSettles(eas) ==
    /\ pc = "awaitGetAttestation"
    /\ LET out  == getAttestation(eas)
           next == AfterGetAttestation(result, uid, out)
       IN  /\ onChain' = out
           /\ result' = next.result
           /\ pc' = next.pc
           /\ calls' = calls \o next.call
           /\ schemaRes' = next.schema
    /\ UNCHANGED <<uid, checks, lookup, clockMs, checkedAtMs, first, svc, cliVars>>

\* schemaRegistry.getSchema settles: steps 5-6 and the return
RegistrySchemaSettles(reg) ==
    /\ pc = "awaitGetSchema"
    /\ LET out  == getSchema(reg)
           next == AfterGetSchema(result, out)
       IN  /\ schemaRes' = out
           /\ result' = next.result
           /\ pc' = next.pc
           /\ calls' = calls \o next.call
    /\ UNCHANGED <<uid, checks, lookup, onChain, clockMs, checkedAtMs, first, svc, cliVars>>

\* the caller has consumed the outcome; the next invocation starts afresh
Finish ==
    /\ pc \in {"returned", "threw"}
    /\ pc' = "idle"
    /\ uid' = ""
    /\ checks' = NoChecks
    /\ result' = NoResult
    /\ lookup' = NotSettled(<<>>)
    /\ onChain' = NotSettled(NullAttestation)
    /\ schemaRes' = NotSettled(NoSchema)
    /\ calls' = <<>>
    /\ checkedAtMs' = NoTime
    /\ first' = NoFirst
    /\ UNCHANGED <<clockMs, svc, cliVars>>

\* time passes
Tick ==
    /\ clockMs + TickMs <= (BaseTime + ClockSpan) * MsPerSecond
    /\ clockMs' = clockMs + TickMs
    /\ UNCHANGED <<pc, uid, checks, result, lookup, onChain, schemaRes, calls, checkedAtMs, first,
                   svc, cliVars>>

verifyVars == <<pc, uid, checks, result, lookup, onChain, schemaRes, calls, checkedAtMs, first>>

\* a QueryService method builds its query and sends it with one fetch
Send(op, input, query) ==
    /\ pc = "idle"
    /\ svc.pc = "idle"
    /\ svc' = [pc |-> "awaitFetch", op |-> op, input |-> input, query |-> query, sent |-> 1,
               resp |-> NoResponse, out |-> NotSettled(<<>>)]
    /\ UNCHANGED <<verifyVars, clockMs, cliVars>>

\* queryService.queryAttestations(options) up to its await
QueryAttestations(options) == Send("queryAttestations", options, buildGraphQLQuery(options))

\* queryService.querySchemas(options) up to its await
QuerySchemas(options) == Send("querySchemas", options, buildSchemaQuery(options))

\* queryService.getAttestationsByUID(uids), called directly, up to its await
GetAttestationsByUID(uids) == Send("getAttestationsByUID", uids, buildUidQuery(uids))

\* the responses the indexer can give to the request of each method
ResponsesTo(op) == IF op = "querySchemas" THEN SchemaResponses ELSE IndexerResponses

\* a method that sends its request a second time when the first one failed
FetchSettles_Retries(resp) ==
    /\ svc.pc = "awaitFetch"
    /\ resp \in ResponsesTo(svc.op)
    /\ LET out == CASE svc.op = "queryAttestations" -> queryAttestations(resp)
                     [] svc.op = "querySchemas" -> querySchemas(resp)
                     [] OTHER -> getAttestationsByUID(resp)
       IN  svc' = IF out.status = "threw" /\ svc.sent = 1
                  THEN [svc EXCEPT !.sent = 2]
                  ELSE [svc EXCEPT !.pc = IF out.status = "ok" THEN "returned" ELSE "threw",
                                   !.resp = resp, !.out = out]
    /\ UNCHANGED <<verifyVars, clockMs, cliVars>>

\* the fetch settles and the method returns a list or throws
FetchSettles(resp) ==
    /\ svc.pc = "awaitFetch"
    /\ resp \in ResponsesTo(svc.op)
    /\ LET out == CASE svc.op = "queryAttestations" -> queryAttestations(resp)
                     [] svc.op = "querySchemas" -> querySchemas(resp)
                     [] OTHER -> getAttestationsByUID(resp)
       IN  svc' = [svc EXCEPT !.pc = IF out.status = "ok" THEN "returned" ELSE "threw",
                              !.resp = resp, !.out = out]
    /\ UNCHANGED <<verifyVars, clockMs, cliVars>>

\* the caller has consumed the list or the error
ServiceFinish ==
    /\ svc.pc \in {"returned", "threw"}
    /\ svc' = NoService
    /\ UNCHANGED <<verifyVars, clockMs, cliVars>>

Next ==
    \/ \E u \in UIDs, chk \in Checks : Verify(u, chk)
    \/ \E resp \in IndexerResponses : IndexerResponds(resp)
    \/ \E eas \in EasOutcomes : RegistryAttestationSettles(eas)
    \/ \E reg \in SchemaRegistryOutcomes : RegistrySchemaSettles(reg)
    \/ Finish
    \/ Tick
    \/ \E options \in QueryOptions : QueryAttestations(options)
    \/ \E options \in SchemaQueryOptions : QuerySchemas(options)
    \/ \E uids \in UidLists : GetAttestationsByUID(uids)
    \/ \E resp \in IndexerResponses \cup SchemaResponses : FetchSettles(resp)
    \/ ServiceFinish

Spec == Init /\ [][Next]_vars

(***************************************************************************)
(* A caller that verifies the same uid with the same flags a second time   *)
(* while the indexer and the registry stay as they were: the second        *)
(* invocation is a new call of verifyAttestation, each external call       *)
(* settles as it did the first time, and the clock still shows the instant *)
(* at which the first invocation read it.                                  *)
(***************************************************************************)
VerifyAgain ==
    /\ pc = "returned"
    /\ ~first.set
    /\ checkedAtMs \in {NoTime, clockMs}
    /\ first' = [set |-> TRUE, lookup |-> lookup, onChain |-> onChain, schemaRes |-> schemaRes,
                 checkedAtMs |-> checkedAtMs, result |-> result]
    /\ pc' = "awaitIndexer"
    /\ result' = NewResult(uid)
    /\ calls' = <<Call("indexer.getAttestationsByUID", uid)>>
    /\ lookup' = NotSettled(<<>>)
    /\ onChain' = NotSettled(NullAttestation)
    /\ schemaRes' = NotSettled(NoSchema)
    /\ checkedAtMs' = NoTime
    /\ UNCHANGED <<uid, checks, clockMs, svc, cliVars>>

NextTwice ==
    \/ \E u \in UIDs, chk \in Checks : Verify(u, chk)
    \/ \E resp \in IndexerResponses :
          (first.set => getAttestationsByUID(resp) = first.lookup) /\ IndexerResponds(resp)
    \/ \E eas \in EasOutcomes :
          (first.set => getAttestation(eas) = first.onChain) /\ RegistryAttestationSettles(eas)
    \/ \E reg \in SchemaRegistryOutcomes :
          (first.set => getSchema(reg) = first.schemaRes) /\ RegistrySchemaSettles(reg)
    \/ Finish
    \/ Tick /\ ~first.set
    \/ VerifyAgain

SpecTwice == Init /\ [][NextTwice]_vars

(***************************************************************************)
(* The logger on its own: levels are set and messages are logged while the *)
(* clock runs.                                                             *)
(***************************************************************************)
programVars == <<verifyVars, svc>>

\* devLog.setLogLevel(level)
SetLogLevel(level) ==
    /\ logger' = [logLevel |-> level,
                  call |-> [method |-> "setLogLevel", message |-> level, error |-> NoError],
                  console |-> <<>>]
    /\ UNCHANGED <<programVars, clockMs, codec, cmd>>

\* devLog.debug(message), .info, .warn, .tx and devLog.error(message, error?)
LogMessage(level, message, error) ==
    /\ level # "error" => error = NoError
    /\ logger' = [logger EXCEPT
                     !.call = [method |-> level, message |-> message, error |-> error],
                     !.console = leveled(logger.logLevel, level, message, error, clockMs)]
    /\ UNCHANGED <<programVars, clockMs, codec, cmd>>

NextLogger ==
    \/ \E level \in SettableLevels : SetLogLevel(level)
    \/ \E k \in 1 .. Len(LogLevels), message \in Messages, error \in Errors :
          LogMessage(LogLevels[k], message, error)
    \/ Tick

SpecLogger == Init /\ [][NextLogger]_vars

(***************************************************************************)
(* The adapter's codec methods on their own.                               *)
(***************************************************************************)
\* blockchain.inferType(value)
InferType(value) ==
    /\ codec' = [last |-> CodecCall("inferType", value, "", <<>>, Returned(inferType(value))),
                 prev |-> codec.last]
    /\ UNCHANGED <<programVars, clockMs, logger, cmd>>

\* blockchain.encodeAttestationData(schemaDefinition, data)
EncodeAttestationData(schemaDefinition, data) ==
    /\ codec' = [last |-> CodecCall("encodeAttestationData", Null, schemaDefinition, data,
                                    encodeAttestationData(schemaDefinition, data)),
                 prev |-> codec.last]
    /\ UNCHANGED <<programVars, clockMs, logger, cmd>>

NextCodec ==
    \/ \E value \in Values : InferType(value)
    \/ \E schemaDefinition \in SchemaDefinitions, data \in DataObjects :
          EncodeAttestationData(schemaDefinition, data)

SpecCodec == Init /\ [][NextCodec]_vars

(***************************************************************************)
(* One run of the issue command.                                           *)
(***************************************************************************)
\* `rootstock-attest issue <options>`: handleIssueCommand up to its first await
Issue(options, env) ==
    /\ cmd.pc = "idle"
    /\ cmd' =
          LET c0 == [cmd EXCEPT !.options = options, !.env = env]
          IN  IF ~env.configOk
              THEN exitWithError(c0, "Either PRIVATE_KEY or MNEMONIC must be provided in environment variables")
              ELSE LET c1 == [devLog(c0, "debug", "Config validated for network: testnet", "")
                                 EXCEPT !.logLevel = env.logLevel]
                   IN  IF \/ options.interactive
                          \/ ~TruthyString(options.schema)
                          \/ ~TruthyString(options.recipient)
                       THEN [infoAll(c1, <<"Starting interactive attestation creation...">>)
                                EXCEPT !.pc = "prompt"]
                       ELSE validateOptions(c1)
    /\ UNCHANGED <<programVars, clockMs, logger, codec>>

\* inquirer.prompt settles: Object.assign(options, answers), then the checks
PromptSettles(outcome) ==
    /\ cmd.pc = "prompt"
    /\ cmd' = IF outcome.status = "threw" THEN exitWithError(cmd, outcome.message)
              ELSE validateOptions([cmd EXCEPT !.options = outcome.value])
    /\ UNCHANGED <<programVars, clockMs, logger, codec>>

\* blockchain.getSignerAddress() settles
SignerAddressSettles(resolved) ==
    /\ cmd.pc = "signer"
    /\ cmd' = IF resolved THEN [cmd EXCEPT !.pc = "balance"]
              ELSE exitWithError(cmd, "could not get the signer address")
    /\ UNCHANGED <<programVars, clockMs, logger, codec>>

\* blockchain.getBalance() settles; the attestation data is prepared and,
\* when --data is to be encoded, parsed
BalanceSettles(resolved) ==
    /\ cmd.pc = "balance"
    /\ cmd' =
          IF ~resolved THEN exitWithError(cmd, "could not get the balance")
          ELSE LET c1 == infoAll(cmd, <<"Using signer: " \o UserAddress, "Balance: 1.0 ETH">>)
                   c2 == [c1 EXCEPT !.data = IF TruthyString(cmd.options.data)
                                             THEN cmd.options.data[1] ELSE "0x"]
               IN  IF ~dataNeedsEncoding(cmd.options) THEN callCreateAttestation(c2)
                   ELSE LET jsonData == JSONparse(cmd.options.data[1])
                        IN  IF jsonData.status = "threw"
                            THEN callCreateAttestation(useRawData(c2))
                            ELSE [c2 EXCEPT !.pc = "schema", !.json = jsonData.value]
    /\ UNCHANGED <<programVars, clockMs, logger, codec>>

\* blockchain.getSchema(options.schema) settles; the parsed data is encoded
IssueSchemaSettles(reg) ==
    /\ cmd.pc = "schema"
    /\ cmd' =
          LET schema == getSchema(reg)
              c1 == [cmd EXCEPT !.schema = schema]
          IN  IF schema.status = "threw"
              THEN callCreateAttestation(useRawData(
                       devLog(c1, "error", "Failed to get schema " \o cmd.options.schema[1],
                              schema.message)))
              ELSE LET encoded ==
                           IF cmd.json.isNull
                           THEN Threw("Cannot convert undefined or null to object", "")
                           ELSE encodeAttestationData(schema.value.schema, cmd.json.entries)
                       c2 == [c1 EXCEPT !.encoded = encoded]
                   IN  IF encoded.status = "threw"
                       THEN callCreateAttestation(useRawData(
                                devLog(c2, "error", "Failed to encode attestation data",
                                       encoded.message)))
                       ELSE callCreateAttestation(
                                [devLog(c2, "debug", "Attestation data encoded successfully", "")
                                    EXCEPT !.data = encoded.value])
    /\ UNCHANGED <<programVars, clockMs, logger, codec>>

\* the registry write of createAttestation settles, and the command ends
CreateSettles(outcome) ==
    /\ cmd.pc = "creating"
    /\ cmd' =
          IF outcome = "created"
          THEN LET c1 == devLog(cmd, "debug", "Estimated gas: 21000", "")
                   c2 == devLog(c1, "tx", "Attestation created with UID: " \o IssueSchemaUid, "")
                   c3 == IF cmd.options.json THEN infoAll(c2, <<"{\"success\":true}">>)
                         ELSE infoAll(c2, <<"Attestation created successfully!",
                                            "Attestation UID: " \o IssueSchemaUid,
                                            "Transaction Hash: ">>)
               IN  [c3 EXCEPT !.pc = "done", !.exitCode = 0]
          ELSE LET c1 == IF outcome = "wait rejected"
                         THEN devLog(cmd, "debug", "Estimated gas: 21000", "")
                         ELSE cmd
               IN  exitWithError(devLog(c1, "error", "Failed to create attestation", outcome),
                                 outcome)
    /\ UNCHANGED <<programVars, clockMs, logger, codec>>

NextIssue ==
    \/ \E options \in IssueOptions, env \in Environments : Issue(options, env)
    \/ \E outcome \in PromptOutcomes(cmd.options) : PromptSettles(outcome)
    \/ \E resolved \in BOOLEAN : SignerAddressSettles(resolved)
    \/ \E resolved \in BOOLEAN : BalanceSettles(resolved)
    \/ \E reg \in SchemaRegistryOutcomes : IssueSchemaSettles(reg)
    \/ \E outcome \in CreateOutcomes : CreateSettles(outcome)

SpecIssue == Init /\ [][NextIssue]_vars

(***************************************************************************)
(* Vocabulary of the properties                                            *)
(***************************************************************************)
HasReturned == pc = "returned"

HasIssue(i) == \E k \in 1 .. Len(result.issues) : result.issues[k] = i

RegistryCalls == {k \in 1 .. Len(calls) : calls[k].to \in {"registry.getAttestation", "registry.getSchema"}}

\* the indexer returned at least one record, the first of them well-formed; Rec is that one
FoundRecord == lookup.status = "ok" /\ Len(lookup.value) > 0 /\ lookup.value[1] # NullRecord

\* the first entry of the indexer's list is null
FoundNull == lookup.status = "ok" /\ Len(lookup.value) > 0 /\ lookup.value[1] = NullRecord

Rec == lookup.value[1]

RevocationApplies == checks.checkRevocation /\ Rec.revocationTime # 0

\* the expiration time lies strictly before the second in which the checks ran
ExpirationApplies ==
    /\ checks.checkExpiration
    /\ Rec.expirationTime # 0
    /\ (Rec.expirationTime + 1) * 1000 <= checkedAtMs

OnChainFailed == onChain.status = "threw"

OnChainMatches == onChain.status = "ok" /\ ~onChain.value.isNull /\ onChain.value.uid = uid

SchemaFailed == schemaRes.status = "threw"

SchemaEmpty == schemaRes.status = "ok" /\ schemaRes.value.schema = ""

SchemaGood == schemaRes.status = "ok" /\ schemaRes.value.schema # ""

WarningIssue == "Warning: Could not verify on-chain data"

MismatchIssue == "Attestation data mismatch between on-chain and indexer"

(***************************************************************************)
(* C1: when the indexer lookup returns zero records, the result has        *)
(* exists=false, isValid=false, issues exactly ["Attestation does not      *)
(* exist"], and the invocation made no registry call.                      *)
(***************************************************************************)
C1_NotFoundIsTerminal ==
    (HasReturned /\ lookup.status = "ok" /\ Len(lookup.value) = 0) =>
        /\ result.exists = FALSE
        /\ result.isValid = FALSE
        /\ result.issues = <<"Attestation does not exist">>
        /\ RegistryCalls = {}
        /\ onChain.status = Pending
        /\ schemaRes.status = Pending

C1_Witness ==
    /\ HasReturned
    /\ lookup.status = "ok"
    /\ Len(lookup.value) = 0
    /\ result.issues = <<"Attestation does not exist">>

(***************************************************************************)
(* C2 as stated: isValid is true iff the issues list holds no entry other  *)
(* than "All checks passed".                                               *)
(***************************************************************************)
C2_Original ==
    HasReturned =>
        (result.isValid <=>
            \A k \in 1 .. Len(result.issues) : result.issues[k] = "All checks passed")

(***************************************************************************)
(* C2 as amended: isValid is true iff the issues list holds no entry other *)
(* than "All checks passed" and the non-fatal warning of the cross-source  *)
(* check.                                                                  *)
(***************************************************************************)
C2_ValidIffNoFatalIssue ==
    HasReturned =>
        (result.isValid <=>
            \A k \in 1 .. Len(result.issues) :
                result.issues[k] \in {"All checks passed", WarningIssue})

C2_Witness ==
    /\ HasReturned
    /\ result.isValid
    /\ result.issues = <<WarningIssue>>

(***************************************************************************)
(* C3: a record with nonzero revocation time, checked with                 *)
(* checkRevocation=true, gives isRevoked=true, isValid=false and a         *)
(* revocation issue, whatever the expiration time, the checkExpiration     *)
(* flag and the outcomes of the two registry calls.                        *)
(***************************************************************************)
C3_RevokedIsInvalid ==
    (HasReturned /\ FoundRecord /\ RevocationApplies) =>
        /\ result.isRevoked
        /\ ~result.isValid
        /\ HasIssue("Attestation was revoked on " \o toISOString(Rec.revocationTime * 1000))

C3_Witness ==
    /\ HasReturned
    /\ FoundRecord
    /\ RevocationApplies
    /\ Rec.expirationTime = 0
    /\ OnChainMatches
    /\ SchemaGood
    /\ result.issues = <<"Attestation was revoked on 1970-01-20T16:13:21.000Z">>

(***************************************************************************)
(* C4: for a record the indexer returned, isExpired=true exactly when      *)
(* checkExpiration is set, the expiration time is nonzero and it is        *)
(* strictly less than the current time in whole seconds; an expired result *)
(* is invalid and carries an expiration issue.                             *)
(***************************************************************************)
C4_ExpiredIffStrictlyPast ==
    (HasReturned /\ FoundRecord) =>
        /\ result.isExpired <=> ExpirationApplies
        /\ result.isExpired =>
              /\ ~result.isValid
              /\ HasIssue("Attestation expired on " \o toISOString(Rec.expirationTime * 1000))

C4_Witness ==
    /\ HasReturned
    /\ FoundRecord
    /\ result.isExpired
    /\ checkedAtMs = (Rec.expirationTime + 1) * 1000
    /\ HasIssue("Attestation expired on 1970-01-20T16:13:20.000Z")

(***************************************************************************)
(* C5: when getAttestation fails, the error is not propagated: the schema  *)
(* check still runs, the returned result carries a "Warning" issue, and    *)
(* isValid is decided by the other checks alone (revocation, expiration,   *)
(* schema), as it would be after a lookup that returned the requested uid. *)
(***************************************************************************)
C5_RegistryFailureIsWarning ==
    OnChainFailed =>
        /\ pc \in {"awaitGetSchema", "returned"}
        /\ HasIssue(WarningIssue)
        /\ FoundRecord => \E k \in 1 .. Len(calls) : calls[k].to = "registry.getSchema"
        /\ HasReturned =>
              /\ schemaRes.status # Pending
              /\ result.isValid <=> (~RevocationApplies /\ ~ExpirationApplies /\ SchemaGood)

C5_Witness ==
    /\ HasReturned
    /\ OnChainFailed
    /\ SchemaGood
    /\ result.isValid
    /\ HasIssue(WarningIssue)

(***************************************************************************)
(* C6: when getAttestation succeeds with a uid other than the requested    *)
(* one, the result is invalid and carries the mismatch issue; when the     *)
(* returned uid is the requested one, the mismatch issue is never added.   *)
(***************************************************************************)
C6_MismatchIsFatal ==
    (pc \in {"awaitGetSchema", "returned"} /\ onChain.status = "ok" /\ ~onChain.value.isNull) =>
        /\ onChain.value.uid # uid => (~result.isValid /\ HasIssue(MismatchIssue))
        /\ onChain.value.uid = uid => ~HasIssue(MismatchIssue)

C6_Witness ==
    /\ HasReturned
    /\ onChain.status = "ok"
    /\ ~onChain.value.isNull
    /\ onChain.value.uid # uid
    /\ result.issues = <<MismatchIssue>>

(***************************************************************************)
(* C7: when getSchema fails, or succeeds with an empty definition, the     *)
(* result carries a fatal issue and isValid=false, even if every other     *)
(* check passed.                                                           *)
(***************************************************************************)
C7_SchemaFailureIsFatal ==
    HasReturned =>
        /\ SchemaFailed => (~result.isValid /\ HasIssue("Failed to validate schema"))
        /\ SchemaEmpty =>
              (~result.isValid /\ HasIssue("Referenced schema does not exist or is invalid"))

C7_Witness ==
    /\ HasReturned
    /\ SchemaEmpty
    /\ OnChainMatches
    /\ ~result.isRevoked
    /\ ~result.isExpired
    /\ result.issues = <<"Referenced schema does not exist or is invalid">>

(***************************************************************************)
(* C8 as stated: a failure of getAttestation or of getSchema becomes a     *)
(* warning issue and does not by itself make the result invalid: a record  *)
(* that passes every other check stays valid.                              *)
(***************************************************************************)
C8_Original ==
    (HasReturned /\ FoundRecord /\ ~RevocationApplies /\ ~ExpirationApplies
        /\ (OnChainFailed \/ OnChainMatches) /\ (SchemaFailed \/ SchemaGood)) =>
        result.isValid

(***************************************************************************)
(* C8 as amended: neither failure is propagated.  A failure of             *)
(* getAttestation (step 4) becomes a warning issue and does not by itself  *)
(* make the result invalid; a failure of getSchema (step 5) becomes the    *)
(* fatal issue "Failed to validate schema" and makes the result invalid.   *)
(***************************************************************************)
C8_FailureHandling ==
    /\ pc # "threw"
    /\ (HasReturned /\ FoundRecord /\ ~RevocationApplies /\ ~ExpirationApplies
           /\ (OnChainFailed \/ OnChainMatches) /\ SchemaGood) => result.isValid
    /\ (HasReturned /\ OnChainFailed) => HasIssue(WarningIssue)
    /\ (HasReturned /\ SchemaFailed) =>
          /\ ~result.isValid
          /\ result.issues[Len(result.issues)] = "Failed to validate schema"

C8_Witness ==
    /\ HasReturned
    /\ OnChainFailed
    /\ SchemaFailed
    /\ result.issues = <<WarningIssue, "Failed to validate schema">>

(***************************************************************************)
(* C9 as stated: a result with isValid=true has the issues list exactly    *)
(* ["All checks passed"].                                                  *)
(***************************************************************************)
C9_Original == (HasReturned /\ result.isValid) => result.issues = <<"All checks passed">>

(***************************************************************************)
(* C9 as amended: a result with isValid=true has the issues list exactly   *)
(* ["All checks passed"] or, when getAttestation failed, exactly the       *)
(* cross-source warning; "All checks passed" is appended only when no      *)
(* other issue was recorded.                                               *)
(***************************************************************************)
C9_ValidIssues ==
    HasReturned =>
        /\ result.isValid =>
              \/ result.issues = <<"All checks passed">> /\ ~OnChainFailed
              \/ result.issues = <<WarningIssue>> /\ OnChainFailed
        /\ HasIssue("All checks passed") => result.issues = <<"All checks passed">>

C9_Witness ==
    /\ HasReturned
    /\ result.isValid
    /\ OnChainMatches
    /\ result.issues = <<"All checks passed">>

(***************************************************************************)
(* C10 as stated: when the indexer lookup fails, verifyAttestation         *)
(* propagates the error and returns no VerificationResult.                 *)
(***************************************************************************)
C10_Original == lookup.status = "threw" => ~HasReturned

(***************************************************************************)
(* C10 as amended: when the indexer lookup fails, getAttestationsByUID     *)
(* rethrows the error, and verifyAttestation catches it: it returns a      *)
(* result with exists=false, isValid=false and the single issue            *)
(* "Verification failed: <message of the error>", and calls no registry.   *)
(***************************************************************************)
C10_LookupFailureIsCaught ==
    lookup.status = "threw" =>
        /\ HasReturned
        /\ result.uid = uid
        /\ ~result.exists
        /\ ~result.isValid
        /\ ~result.isRevoked
        /\ ~result.isExpired
        /\ result.attestation = <<>>
        /\ Len(result.issues) = 1
        /\ result.issues[1] \in
              {"Verification failed: fetch failed",
               "Verification failed: GraphQL request failed: Internal Server Error",
               "Verification failed: GraphQL request failed: Bad Gateway",
               "Verification failed: Unexpected token < in JSON at position 0",
               "Verification failed: GraphQL errors: [{\"message\":\"Cannot query field\"}]"}
        /\ RegistryCalls = {}

C10_Witness ==
    /\ HasReturned
    /\ lookup.status = "threw"
    /\ result.issues = <<"Verification failed: GraphQL request failed: Bad Gateway">>

(***************************************************************************)
(* C11: when a step after the existence check throws an unexpected error   *)
(* (here: the first read of a field of a null list entry, in step 2 or 3), *)
(* the error is not propagated: the result has isValid=false and its       *)
(* issues list is the single entry "Verification failed: <message>".       *)
(***************************************************************************)
C11_UnexpectedErrorIsCaught ==
    (FoundNull /\ (checks.checkRevocation \/ checks.checkExpiration)) =>
        /\ HasReturned
        /\ ~result.isValid
        /\ result.issues =
              <<"Verification failed: Cannot read properties of null (reading '"
                    \o (IF checks.checkRevocation THEN "revocationTime" ELSE "expirationTime")
                    \o "')">>
        /\ RegistryCalls = {}

C11_Witness ==
    /\ HasReturned
    /\ FoundNull
    /\ ~checks.checkRevocation
    /\ checks.checkExpiration
    /\ result.issues =
          <<"Verification failed: Cannot read properties of null (reading 'expirationTime')">>

(***************************************************************************)
(* C12: every result verifyAttestation returns, on every path (not found,  *)
(* all checks run, unexpected error), has a non-empty issues list.         *)
(***************************************************************************)
C12_IssuesNeverEmpty == HasReturned => Len(result.issues) >= 1

C12_Witness ==
    /\ HasReturned
    /\ FoundRecord
    /\ OnChainMatches
    /\ SchemaGood
    /\ ~RevocationApplies
    /\ ~ExpirationApplies
    /\ Len(result.issues) = 1

(***************************************************************************)
(* C13: within one invocation validity only goes down: once isValid is     *)
(* false, no later step of the same invocation sets it back to true.       *)
(***************************************************************************)
C13_ValidityOnlyGoesDown ==
    [][(pc # "idle" /\ pc' # "idle" /\ ~result.isValid) => ~result'.isValid]_vars

C13_Witness ==
    /\ pc = "awaitGetSchema"
    /\ result.isRevoked
    /\ ~result.isValid
    /\ OnChainMatches

(***************************************************************************)
(* C14: the external calls of one invocation happen in the fixed order     *)
(* indexer lookup, registry getAttestation, registry getSchema; a call     *)
(* starts only after the previous one has settled, so at most one is       *)
(* outstanding, and the registry is called only after the indexer          *)
(* returned a record.                                                      *)
(***************************************************************************)
CallOrder == <<"indexer.getAttestationsByUID", "registry.getAttestation", "registry.getSchema">>

C14_CallsInOrder ==
    /\ Len(calls) <= 3
    /\ \A k \in 1 .. Len(calls) : calls[k].to = CallOrder[k]
    /\ Len(calls) >= 2 => (lookup.status = "ok" /\ Len(lookup.value) > 0)
    /\ Len(calls) >= 3 => onChain.status # Pending
    /\ pc = "awaitIndexer" => (Len(calls) = 1 /\ lookup.status = Pending)
    /\ pc = "awaitGetAttestation" =>
          (Len(calls) = 2 /\ lookup.status # Pending /\ onChain.status = Pending)
    /\ pc = "awaitGetSchema" =>
          (Len(calls) = 3 /\ onChain.status # Pending /\ schemaRes.status = Pending)

C14_Witness ==
    /\ HasReturned
    /\ Len(calls) = 3
    /\ calls[2] = [to |-> "registry.getAttestation", arg |-> "0xa1"]
    /\ calls[3] = [to |-> "registry.getSchema", arg |-> "0x5c"]

(***************************************************************************)
(* C15: verifying the same uid with the same flags twice, with the indexer *)
(* and the registry unchanged and at the same current time, returns two    *)
(* identical results: nothing of the first call is left in the second.     *)
(***************************************************************************)
C15_SecondResultIsIdentical ==
    (first.set /\ HasReturned /\ lookup = first.lookup /\ onChain = first.onChain
        /\ schemaRes = first.schemaRes /\ checkedAtMs = first.checkedAtMs) =>
        result = first.result

C15_Witness ==
    /\ first.set
    /\ HasReturned
    /\ checkedAtMs = first.checkedAtMs
    /\ FoundRecord
    /\ Len(first.result.issues) = 4
    /\ result = first.result

(***************************************************************************)
(* Vocabulary of the QueryService properties: they read the text of the    *)
(* request that was sent.                                                  *)
(***************************************************************************)
Contains(text, part) ==
    \E i \in 1 .. (Len(text) - Len(part) + 1) : SubSeq(text, i, i + Len(part) - 1) = part

Built == svc.pc # "idle"

Settled == svc.pc \in {"returned", "threw"}

AttestationSearch == Built /\ svc.op = "queryAttestations"

SchemaSearch == Built /\ svc.op = "querySchemas"

UidLookup == Built /\ svc.op = "getAttestationsByUID"

\* the option is a key of the options object / it is one and is not empty
Present(o) == Len(o) = 1

NonEmpty(o) == Len(o) = 1 /\ o[1] # ""

NonZero(o) == Len(o) = 1 /\ o[1] # 0

\* the request has an equality filter on the field / a where clause
HasFilter(field) == Contains(svc.query.text, field \o ": \"")

HasWhere == Contains(svc.query.text, "where")

\* the filters of the request follow the options that are `given`
FiltersFollow(given(_)) ==
    /\ AttestationSearch =>
          /\ HasFilter("schemaId") <=> given(svc.input.schema)
          /\ HasFilter("recipient") <=> given(svc.input.recipient)
          /\ HasFilter("attester") <=> given(svc.input.attester)
          /\ (~given(svc.input.schema) /\ ~given(svc.input.recipient)
                /\ ~given(svc.input.attester)) => ~HasWhere
    /\ SchemaSearch =>
          /\ HasFilter("creator") <=> given(svc.input.creator)
          /\ ~given(svc.input.creator) => ~HasWhere

RecipientAndLimit ==
    [schema |-> Absent, recipient |-> <<"0xAAAA">>, attester |-> Absent, limit |-> <<10>>,
     offset |-> Absent]

\* C16 as stated: a filter is rendered if and only if its option is present.
\* A recipient or creator that is present and empty violates it.
C16_Original == FiltersFollow(Present)

\* C16 (amended): the query of buildGraphQLQuery has an equality filter for
\* schemaId, recipient or attester if and only if that option is present and
\* is not the empty string, the filter carries the option's value, and there
\* is no where clause when no option is so given; options {recipient,
\* limit: 10} give the arguments `where: { recipient: "..." }, first: 10` and
\* nothing else; the same holds for the creator filter of buildSchemaQuery.
C16_FiltersIffNonEmpty ==
    /\ FiltersFollow(NonEmpty)
    /\ AttestationSearch =>
          /\ NonEmpty(svc.input.schema) =>
                Contains(svc.query.text, "schemaId: \"" \o svc.input.schema[1] \o "\"")
          /\ NonEmpty(svc.input.recipient) =>
                Contains(svc.query.text, "recipient: \"" \o svc.input.recipient[1] \o "\"")
          /\ NonEmpty(svc.input.attester) =>
                Contains(svc.query.text, "attester: \"" \o svc.input.attester[1] \o "\"")
          /\ svc.input = RecipientAndLimit =>
                Contains(svc.query.text, "attestations(where: { recipient: \"0xAAAA\" }, first: 10)")
    /\ SchemaSearch =>
          (NonEmpty(svc.input.creator) =>
              Contains(svc.query.text, "creator: \"" \o svc.input.creator[1] \o "\""))

C16_Witness ==
    /\ AttestationSearch
    /\ svc.input = RecipientAndLimit
    /\ HasFilter("recipient")
    /\ ~HasFilter("schemaId")
    /\ ~HasFilter("attester")
    /\ ~Contains(svc.query.text, "skip")

\* the request's limit clause is `first: n`
FirstClauseIs(n) ==
    \/ Contains(svc.query.text, "first: " \o ToString(n) \o ")")
    \/ Contains(svc.query.text, "first: " \o ToString(n) \o ",")

HasSkip == Contains(svc.query.text, "skip")

\* the limit clause follows the limit that is `given`, else the default
LimitFollows(given(_)) ==
    /\ AttestationSearch =>
          /\ given(svc.input.limit) => FirstClauseIs(svc.input.limit[1])
          /\ ~given(svc.input.limit) => FirstClauseIs(100)
          /\ HasSkip <=> NonZero(svc.input.offset)
          /\ NonZero(svc.input.offset) =>
                Contains(svc.query.text, "skip: " \o ToString(svc.input.offset[1]) \o ")")
    /\ SchemaSearch =>
          /\ given(svc.input.limit) => FirstClauseIs(svc.input.limit[1])
          /\ ~given(svc.input.limit) => FirstClauseIs(50)
          /\ ~HasSkip

C18_EmptyListIsRejected ==
    (UidLookup /\ Len(svc.input) = 0) =>
        /\ svc.sent = 0
        /\ svc.pc = "threw"
        /\ ~Contains(svc.query.text, "uid_in: []")

\* the call got an HTTP response (fetch did not reject)
GotResponse == Settled /\ ~svc.resp.rejected

TransportMessage == "GraphQL request failed: " \o svc.resp.statusText

ErrorsMessage == "GraphQL errors: " \o svc.resp.errorsJson

\* C19: for each of the three operations, a response with a non-success
\* status makes the call throw an error naming the status text whatever the
\* body holds; a success response whose body has `errors` makes it throw a
\* different error carrying the serialized errors even if the body also has
\* data; in both cases the error reaches the caller and no list is returned.
C19_FailuresReachTheCaller ==
    GotResponse =>
        /\ ~svc.resp.ok =>
              /\ svc.pc = "threw"
              /\ svc.out.status = "threw"
              /\ svc.out.message = TransportMessage
              /\ svc.out.value = <<>>
        /\ (svc.resp.ok /\ svc.resp.jsonValid /\ svc.resp.hasErrors) =>
              /\ svc.pc = "threw"
              /\ svc.out.status = "threw"
              /\ svc.out.message = ErrorsMessage
              /\ svc.out.message # TransportMessage
              /\ svc.out.value = <<>>

C19_Witness ==
    /\ GotResponse
    /\ SchemaSearch
    /\ ~svc.resp.ok
    /\ svc.resp.hasErrors
    /\ svc.resp.data = "list"
    /\ svc.out.message = "GraphQL request failed: Bad Gateway"

\* C20: for each of the three operations, every response with a success
\* status and no `errors` field yields a list and never an error, and the
\* list is empty when the body has no data, has data without the result
\* field, or has an empty result list.  queryAttestations and querySchemas
\* throw a TypeError on data without the result field, so this is violated.
C20_SuccessYieldsAList ==
    (GotResponse /\ svc.resp.ok /\ svc.resp.jsonValid /\ ~svc.resp.hasErrors) =>
        /\ svc.pc = "returned"
        /\ svc.out.status = "ok"
        /\ (svc.resp.data # "list" \/ Len(svc.resp.attestations) = 0) => svc.out.value = <<>>

\* how many times the invocation of verifyAttestation has called `target`
TimesCalled(target) == Cardinality({k \in 1 .. Len(calls) : calls[k].to = target})

\* C21: each call of queryAttestations, querySchemas or getAttestationsByUID
\* sends exactly one request to the indexer whether it succeeds or fails,
\* and each invocation of verifyAttestation calls the indexer exactly once
\* and each of registry getAttestation and getSchema at most once: a failed
\* call is never retried.
C21_NoRetry ==
    /\ Built => svc.sent = 1
    /\ pc # "idle" => TimesCalled("indexer.getAttestationsByUID") = 1
    /\ TimesCalled("registry.getAttestation") <= 1
    /\ TimesCalled("registry.getSchema") <= 1
    /\ \A k \in 1 .. Len(calls) : calls[k].to \in {CallOrder[1], CallOrder[2], CallOrder[3]}

C21_Witness ==
    /\ svc.pc = "threw"
    /\ svc.op = "queryAttestations"
    /\ ~svc.resp.rejected
    /\ ~svc.resp.ok
    /\ svc.sent = 1

\* the text the request must hold between the brackets of uid_in
QuotedList(uids) ==
    IF Len(uids) = 0 THEN ""
    ELSE IF Len(uids) = 1 THEN "\"" \o uids[1] \o "\""
    ELSE "\"" \o uids[1] \o "\", \"" \o uids[2] \o "\""

Occurrences(text, part) ==
    Cardinality({i \in 1 .. (Len(text) - Len(part) + 1) : SubSeq(text, i, i + Len(part) - 1) = part})

\* C22: getAttestationsByUID renders a single uid_in filter listing every
\* given UID, each as a quoted string, in the order of the input list, and
\* returns the indexer's attestation list unchanged.
C22_UidFilterInOrder ==
    UidLookup =>
        /\ Occurrences(svc.query.text, "uid_in") = 1
        /\ Contains(svc.query.text, "(where: { uid_in: [" \o QuotedList(svc.input) \o "] })")
        /\ (GotResponse /\ svc.resp.ok /\ svc.resp.jsonValid /\ ~svc.resp.hasErrors
                /\ svc.resp.data = "list") =>
              (svc.pc = "returned" /\ svc.out.value = svc.resp.attestations)

C22_Witness ==
    /\ UidLookup
    /\ svc.input = <<"0xb2", "0xa1">>
    /\ Contains(svc.query.text, "[\"0xb2\", \"0xa1\"]")
    /\ svc.pc = "returned"
    /\ Len(svc.out.value) = 2

\* some issue of the result begins with `prefix`
HasIssueStarting(prefix) ==
    \E k \in 1 .. Len(result.issues) :
        /\ Len(result.issues[k]) >= Len(prefix)
        /\ SubSeq(result.issues[k], 1, Len(prefix)) = prefix

\* the issues the cross-source check and the schema check leave behind
RegistryIssues ==
    (IF OnChainFailed THEN <<WarningIssue>>
     ELSE IF OnChainMatches THEN <<>> ELSE <<MismatchIssue>>)
    \o (IF SchemaFailed THEN <<"Failed to validate schema">>
        ELSE IF SchemaEmpty THEN <<"Referenced schema does not exist or is invalid">>
        ELSE <<>>)

\* C28: with checkRevocation=false a record with nonzero revocation time
\* leaves isRevoked=false and adds no revocation issue; with
\* checkExpiration=false a record with a past expiration time leaves
\* isExpired=false and adds no expiration issue; neither lowers isValid: the
\* flags, the verdict and the issues are then those of a record that is
\* neither revoked nor expired, decided by the two registry checks alone.
C28_DisabledChecksAreSkipped ==
    (HasReturned /\ FoundRecord) =>
        /\ ~checks.checkRevocation =>
              (~result.isRevoked /\ ~HasIssueStarting("Attestation was revoked on"))
        /\ ~checks.checkExpiration =>
              (~result.isExpired /\ ~HasIssueStarting("Attestation expired on"))
        /\ (~RevocationApplies /\ ~ExpirationApplies) =>
              /\ ~result.isRevoked
              /\ ~result.isExpired
              /\ result.isValid <=> ((OnChainFailed \/ OnChainMatches) /\ SchemaGood)
              /\ result.issues =
                    IF RegistryIssues = <<>> THEN <<"All checks passed">> ELSE RegistryIssues

C28_Witness ==
    /\ HasReturned
    /\ FoundRecord
    /\ ~checks.checkRevocation
    /\ ~checks.checkExpiration
    /\ Rec.revocationTime # 0
    /\ Rec.expirationTime # 0
    /\ (Rec.expirationTime + 1) * 1000 <= checkedAtMs
    /\ result.isValid
    /\ result.issues = <<"All checks passed">>

Leveled == logger.call.method \in {"debug", "info", "warn", "error", "tx"}

Rank(level) ==
    CASE level = "debug" -> 0 [] level = "info" -> 1 [] level = "warn" -> 2
      [] level = "error" -> 3 [] level = "tx" -> 4

Displayed(part) == \E k \in 1 .. Len(logger.console) : Contains(logger.console[k].text, part)

\* C25: every message shown through debug, info, warn, error and tx has each
\* private key (64 hex characters) replaced by a redaction marker and each
\* address shortened to its first 6 and last 4 characters, so that no full
\* private key and no full address is displayed.  The code redacts a key
\* only after the words "private" and "key", and prints the Error argument
\* of error() as it is, so this is violated.
C25_NoSecretIsDisplayed ==
    Leveled =>
        /\ ~Displayed(KeyHex)
        /\ ~Displayed(UserAddress)
        /\ ~Displayed(ContractAddress)
        /\ (Contains(logger.call.message, KeyHex) /\ logger.console # <<>>) =>
              Displayed("PRIVATE_KEY_REDACTED")

\* the parts of C26 that do not depend on how many lines error() writes
LevelFilter ==
    /\ (Leveled /\ logger.logLevel \in {"debug", "info", "warn", "error", "tx"}) =>
          (logger.console # <<>> <=> Rank(logger.call.method) >= Rank(logger.logLevel))
    /\ (Leveled /\ logger.logLevel = "error" /\ logger.call.method \in {"debug", "info", "warn"}) =>
          logger.console = <<>>

\* C26 as stated: with level 'error' an error message produces exactly one
\* output.  A call of error() with an Error object violates it.
C26_Original ==
    /\ LevelFilter
    /\ (logger.logLevel = "error" /\ logger.call.method = "error") => Len(logger.console) = 1

\* C26 (amended): after any sequence of setLogLevel calls with levels of the
\* order debug < info < warn < error < tx, a leveled message is emitted if
\* and only if its level is at or above the most recently set level; with
\* level 'error', debug, info and warn messages produce no output and an
\* error message produces exactly one formatted line on console.error,
\* followed by one further line holding the stack (or else the message) of
\* the Error object when the call passes one.
C26_LevelFilter ==
    /\ LevelFilter
    /\ (Leveled /\ logger.console # <<>>) =>
          /\ Len(logger.console) =
                IF logger.call.method = "error" /\ logger.call.error.given THEN 2 ELSE 1
          /\ Contains(logger.console[1].text, "] [" \o toUpperCase(logger.call.method) \o "] ")
          /\ logger.call.method = "error" => logger.console[1].stream = "error"

C26_Witness ==
    /\ logger.logLevel = "error"
    /\ logger.call.method = "error"
    /\ logger.call.message = "info message"
    /\ logger.call.error.given
    /\ Len(logger.console) = 2
    /\ clockMs > BaseTime * 1000

(***************************************************************************)
(* Vocabulary of the codec properties                                      *)
(***************************************************************************)
Inferred == codec.last.op = "inferType"

InferredFrom == codec.last.value

\* the text is 0x and 40 hex characters
AddressPattern(text) ==
    /\ Len(text) = 42
    /\ SubSeq(text, 1, 2) = "0x"
    /\ \A i \in 3 .. 42 : SubSeq(text, i, i) \in HexChars

StartsWith0x(text) == Len(text) >= 2 /\ SubSeq(text, 1, 2) = "0x"

\* the answer of inferType follows the rules with `isAnAddress` as the first
InferenceFollows(isAnAddress(_)) ==
    Inferred =>
        /\ codec.last.out.status = "ok"
        /\ codec.last.out.value \in {"address", "bytes32", "string", "uint256", "bool"}
        /\ InferredFrom.type = "string" =>
              codec.last.out.value =
                  IF isAnAddress(InferredFrom.s) THEN "address"
                  ELSE IF StartsWith0x(InferredFrom.s) THEN "bytes32"
                  ELSE "string"
        /\ InferredFrom.type = "number" => codec.last.out.value = "uint256"
        /\ InferredFrom.type = "boolean" => codec.last.out.value = "bool"

\* C23 as stated: a string of 0x and 40 hex characters gives address, and
\* any other string with the 0x prefix gives bytes32, any other string
\* string.  An address in mixed case whose checksum is wrong violates it (it
\* gives bytes32), and so do 40 hex characters without 0x (they give address).
C23_Original == InferenceFollows(AddressPattern)

\* the strings ethers.isAddress takes, said without the library: 40 hex
\* characters, with or without 0x, all in one case or in EIP-55 form, and
\* ICAP addresses
ValidAddress(text) ==
    \/ text \in {"0x8ba1f109551bd432803012645ac136ddd64dba72",
                 "0x8BA1F109551BD432803012645AC136DDD64DBA72",
                 "0x8ba1f109551bD432803012645Ac136ddd64DBA72",
                 "8ba1f109551bd432803012645ac136ddd64dba72",
                 "XE65GB6LDNXYOFTX0NSV3FUWKOWIXAMJK36"}

\* C23 (amended): inferType is a total function onto {address, bytes32,
\* string, uint256, bool} applying these rules in order: a string that
\* ethers.isAddress accepts (40 hex characters with or without 0x, all of
\* one case or with a valid EIP-55 checksum, or an ICAP address) gives
\* address; any other string beginning with 0x gives bytes32, among them a
\* 0x + 40 hex string in mixed case with a wrong checksum; any other string
\* (including a numeric string) gives string; a number gives uint256; a
\* boolean gives bool; every other value gives string.  A string that
\* isAddress accepts never infers to bytes32.
C23_InferenceRules ==
    /\ InferenceFollows(ValidAddress)
    /\ (Inferred /\ InferredFrom.type = "object") => codec.last.out.value = "string"
    /\ (Inferred /\ InferredFrom = String("0x8Ba1f109551bD432803012645Ac136ddd64DBA72")) =>
          codec.last.out.value = "bytes32"
    /\ (Inferred /\ InferredFrom = String("42")) => codec.last.out.value = "string"

C23_Witness ==
    /\ Inferred
    /\ InferredFrom = String("0x8ba1f109551bD432803012645Ac136ddd64DBA72")
    /\ codec.last.out.value = "address"
    /\ codec.prev.op = "inferType"
    /\ codec.prev.value = String("0x8Ba1f109551bD432803012645Ac136ddd64DBA72")
    /\ codec.prev.out.value = "bytes32"

Encoded == codec.last.op = "encodeAttestationData"

Field(type, name) == [type |-> type, name |-> name]

\* the fields each schema definition of the model declares
DeclaredFields(schemaDefinition) ==
    CASE schemaDefinition = "string name" -> {Field("string", "name")}
      [] schemaDefinition = "string name,uint256 age" ->
            {Field("string", "name"), Field("uint256", "age")}
      [] schemaDefinition = "address to" -> {Field("address", "to")}
      [] schemaDefinition = "bytes32 ref,bool ok" -> {Field("bytes32", "ref"), Field("bool", "ok")}
      [] schemaDefinition = "uint8 age" -> {Field("uint8", "age")}
      [] OTHER -> {}

\* the value is outside what the declared type can hold
CannotHold(type, value) ==
    CASE type = "string" -> value.type # "string"
      [] type = "uint256" -> value.type \notin {"number", "string"} \/ (value.type = "number" /\ value.n < 0)
      [] type = "uint8" ->
            value.type \notin {"number", "string"} \/ (value.type = "number" /\ (value.n < 0 \/ value.n > 255))
      [] type = "address" -> value.type # "string" \/ ~ValidAddress(value.s)
      [] type = "bool" -> value.type # "boolean"
      [] type = "bytes32" -> value.type # "string" \/ (StartsWith0x(value.s) /\ Len(value.s) # 66)

MissingField ==
    \E f \in DeclaredFields(codec.last.schema) :
        \A k \in 1 .. Len(codec.last.data) : codec.last.data[k].name # f.name

UnfitValue ==
    \E f \in DeclaredFields(codec.last.schema) :
        \E k \in 1 .. Len(codec.last.data) :
            codec.last.data[k].name = f.name /\ CannotHold(f.type, codec.last.data[k].value)

BobAged30 == <<[name |-> "name", value |-> String("Bob")], [name |-> "age", value |-> Number(30)]>>

SameCodecCall ==
    /\ codec.prev.op = codec.last.op
    /\ codec.prev.schema = codec.last.schema
    /\ codec.prev.data = codec.last.data

\* C24: encodeAttestationData fails with an error whenever a field named in
\* the schema definition is missing from the input mapping or a value cannot
\* be represented in the field's declared type (schema "string name" with {}
\* fails), and it succeeds with the same encoding each time for schema
\* "string name,uint256 age" with {name: "Bob", age: 30}.
C24_EncodingFailsOrIsDeterministic ==
    Encoded =>
        /\ (MissingField \/ UnfitValue) => codec.last.out.status = "threw"
        /\ (codec.last.schema = "string name" /\ codec.last.data = <<>>) =>
              codec.last.out.status = "threw"
        /\ (codec.last.schema = "string name,uint256 age" /\ codec.last.data = BobAged30) =>
              /\ codec.last.out.status = "ok"
              /\ codec.last.out.value # ""
        /\ SameCodecCall => codec.prev.out = codec.last.out

C24_Witness ==
    /\ Encoded
    /\ codec.last.schema = "string name,uint256 age"
    /\ codec.last.data = BobAged30
    /\ SameCodecCall
    /\ codec.last.out.status = "ok"
    /\ codec.prev.out = codec.last.out

\* the command is past its prompt: its options are the ones it works with
PastPrompt == cmd.pc \notin {"idle", "prompt"}

\* the environment let the command come to its options
ConfigAccepted == cmd.env.configOk

Given(option) == option # Absent /\ option # <<"">>

IncompleteRequest == ~Given(cmd.options.schema) \/ ~Given(cmd.options.recipient)

InvalidRecipient ==
    Given(cmd.options.recipient) /\ ~AddressPattern(cmd.options.recipient[1])

\* C27: when schema or recipient is still missing after prompting, or the
\* recipient is not a valid address, the issue command ends with process
\* exit code 1 and never calls createAttestation.
C27_InvalidRequestExits ==
    (PastPrompt /\ (IncompleteRequest \/ InvalidRecipient)) =>
        /\ cmd.pc = "exited"
        /\ cmd.exitCode = 1
        /\ cmd.created = 0

C27_Witness ==
    /\ cmd.pc = "exited"
    /\ ConfigAccepted
    /\ Given(cmd.options.schema)
    /\ InvalidRecipient
    /\ cmd.exitCode = 1
    /\ cmd.created = 0
    /\ \E i \in 1 .. Len(cmd.log) : cmd.log[i].error = "Invalid recipient address format"

\* the attestation data is prepared and the command is past parsing, lookup
\* and encoding
DataSettled == cmd.data # "" /\ cmd.pc # "schema"

RawData == cmd.options.data[1]

ToBeEncoded == Given(cmd.options.data) /\ ~StartsWith0x(RawData)

\* the texts of the model that are not JSON
ParsingFailed == RawData = "test data"

LookupFailed == cmd.schema.status = "threw"

EncodingFailed == cmd.encoded.status = "threw"

Logged(level, message) ==
    \E i \in 1 .. Len(cmd.log) : cmd.log[i].level = level /\ cmd.log[i].message = message

ErrorShown ==
    \E i \in 1 .. Len(cmd.log) : cmd.log[i].level = "error" /\ cmd.log[i].shown

CreatedOnceWithRawData == cmd.created = 1 /\ cmd.createdWith = RawData

\* C30 as stated: when --data does not start with 0x and JSON parsing, the
\* schema lookup or the encoding fails, nothing is reported as an error (no
\* error line is displayed before createAttestation is called) and
\* createAttestation is called exactly once with the raw --data string.
C30_Original ==
    (DataSettled /\ ToBeEncoded /\ (ParsingFailed \/ LookupFailed \/ EncodingFailed)) =>
        /\ CreatedOnceWithRawData
        /\ cmd.pc = "creating" => ~ErrorShown

\* C30, amended: in those cases the command goes on, logs the warning
\* 'Failed to parse data as JSON, using as raw data' and calls
\* createAttestation exactly once with the raw --data string; a parsing
\* failure is logged as that warning only, while a failed schema lookup or
\* a failed encoding has been logged at error level by the adapter before,
\* displayed under every log level that shows errors.
C30_FallsBackToRawData ==
    (DataSettled /\ ToBeEncoded /\ (ParsingFailed \/ LookupFailed \/ EncodingFailed)) =>
        /\ CreatedOnceWithRawData
        /\ Logged("warn", "Failed to parse data as JSON, using as raw data")
        /\ LookupFailed <=> Logged("error", "Failed to get schema " \o cmd.options.schema[1])
        /\ EncodingFailed <=> Logged("error", "Failed to encode attestation data")
        /\ cmd.pc = "creating" =>
              /\ cmd.exitCode = NoExitCode
              /\ ErrorShown <=> ((LookupFailed \/ EncodingFailed) /\ cmd.logLevel # "tx")

C30_Witness ==
    /\ cmd.pc = "creating"
    /\ ToBeEncoded
    /\ EncodingFailed
    /\ CreatedOnceWithRawData
    /\ ErrorShown
    /\ Logged("warn", "Failed to parse data as JSON, using as raw data")

====
